---------------------------- MODULE Spec2Model ----------------------------
(***************************************************************************)
(* ContractBot (realgank/Bot_Vikup): the contract ingestion cycle of       *)
(* contractbot/processor.py over the SQLite ledger of                      *)
(* contractbot/database.py, the buyback holder of contractbot/buyback.py,  *)
(* the user-words file of contractbot/ocr.py, the text parser of           *)
(* contractbot/parsing.py and the command surface of                       *)
(* contractbot/discord_bot.py, wired as in contractbot/app.py.             *)
(*                                                                         *)
(* Conventions.                                                            *)
(*  - A text is a sequence of one-character strings.                       *)
(*  - A number parsed from text is kept in tenths (float("1,5") is 15).    *)
(*  - bisk_credited is kept in hundredths of the unit of est_total, so     *)
(*    est_total * (buyback_percent / 100.0) is est_total * buyback_percent.*)
(*  - SQL NULL is 0 in an integer column and NULL in a text column.        *)
(***************************************************************************)
EXTENDS Integers, Sequences, FiniteSets, TLC

(***************************************************************************)
(* Python string primitives used by parsing.py and discord_bot.py          *)
(***************************************************************************)
Digits == {"0", "1", "2", "3", "4", "5", "6", "7", "8", "9"}

Latin == {"a", "b", "c", "d", "e", "f", "g", "h", "i", "j", "k", "l", "m",
          "n", "o", "p", "q", "r", "s", "t", "u", "v", "w", "x", "y", "z",
          "A", "B", "C", "D", "E", "F", "G", "H", "I", "J", "K", "L", "M",
          "N", "O", "P", "Q", "R", "S", "T", "U", "V", "W", "X", "Y", "Z"}

DigitVal == ("0" :> 0) @@ ("1" :> 1) @@ ("2" :> 2) @@ ("3" :> 3) @@ ("4" :> 4)
            @@ ("5" :> 5) @@ ("6" :> 6) @@ ("7" :> 7) @@ ("8" :> 8) @@ ("9" :> 9)

IsSpace(c) == c \in {" ", "\t", "\n"}

RECURSIVE lstrip(_)
lstrip(s) == IF s # <<>> /\ IsSpace(Head(s)) THEN lstrip(Tail(s)) ELSE s

RECURSIVE rstrip(_)
rstrip(s) ==
    IF s # <<>> /\ IsSpace(s[Len(s)]) THEN rstrip(SubSeq(s, 1, Len(s) - 1)) ELSE s

strip(s) == rstrip(lstrip(s))

\* str.find: the 0-based index of the first occurrence of pat at or after i, or -1
RECURSIVE find_from(_, _, _)
find_from(s, pat, i) ==
    IF i + Len(pat) > Len(s) THEN -1
    ELSE IF SubSeq(s, i + 1, i + Len(pat)) = pat THEN i
    ELSE find_from(s, pat, i + 1)

find(s, pat) == find_from(s, pat, 0)

RECURSIVE splitlines(_)
splitlines(s) ==
    IF s = <<>> THEN <<>>
    ELSE LET i == find(s, <<"\n">>)
         IN  IF i < 0 THEN <<s>>
             ELSE <<SubSeq(s, 1, i)>> \o splitlines(SubSeq(s, i + 2, Len(s)))

Emit(cur) == IF cur = <<>> THEN <<>> ELSE <<cur>>

\* str.split(): the maximal runs of non-whitespace characters
RECURSIVE split_ws(_, _)
split_ws(s, cur) ==
    IF s = <<>> THEN Emit(cur)
    ELSE IF IsSpace(Head(s)) THEN Emit(cur) \o split_ws(Tail(s), <<>>)
    ELSE split_ws(Tail(s), Append(cur, Head(s)))

RECURSIVE space_run(_)
space_run(s) == IF s # <<>> /\ IsSpace(Head(s)) THEN 1 + space_run(Tail(s)) ELSE 0

\* [part for part in MULTISPACE_REGEX.split(line) if part]: cut at runs of two
\* or more whitespace characters, a single one stays inside its part
RECURSIVE split_multi(_, _)
split_multi(s, cur) ==
    IF s = <<>> THEN Emit(cur)
    ELSE LET n == space_run(s)
         IN  IF n >= 2 THEN Emit(cur) \o split_multi(SubSeq(s, n + 1, Len(s)), <<>>)
             ELSE split_multi(Tail(s), Append(cur, Head(s)))

RECURSIVE join(_)
join(parts) ==
    IF parts = <<>> THEN <<>>
    ELSE IF Len(parts) = 1 THEN parts[1]
    ELSE parts[1] \o <<" ">> \o join(Tail(parts))

AllIn(s, chars) == \A i \in 1..Len(s) : s[i] \in chars

RECURSIVE replace_comma(_)
replace_comma(s) ==
    IF s = <<>> THEN <<>>
    ELSE <<IF Head(s) = "," THEN "." ELSE Head(s)>> \o replace_comma(Tail(s))

RECURSIVE digits_value(_, _)
digits_value(s, acc) ==
    IF s = <<>> THEN acc ELSE digits_value(Tail(s), 10 * acc + DigitVal[Head(s)])

\* float(raw) for the decimal literals sign? digits [ . digits ]: the value in
\* tenths, or a ValueError (ok = FALSE).  Digits after the first fractional
\* one are below the model's resolution.
float(raw) ==
    LET neg  == raw # <<>> /\ Head(raw) = "-"
        body == IF raw # <<>> /\ Head(raw) \in {"-", "+"} THEN Tail(raw) ELSE raw
        dot  == find(body, <<".">>)
        ip   == IF dot < 0 THEN body ELSE SubSeq(body, 1, dot)
        fp   == IF dot < 0 THEN <<>> ELSE SubSeq(body, dot + 2, Len(body))
        ok   == /\ AllIn(ip, Digits) /\ AllIn(fp, Digits)
                /\ Len(ip) + Len(fp) > 0
        mag  == 10 * digits_value(ip, 0) + (IF fp = <<>> THEN 0 ELSE DigitVal[fp[1]])
    IN  IF ok THEN [ok |-> TRUE, val |-> IF neg THEN 0 - mag ELSE mag]
        ELSE [ok |-> FALSE, val |-> 0]

(***************************************************************************)
(* parsing.py                                                              *)
(***************************************************************************)
\* the characters SANITIZE_REGEX keeps (the Cyrillic range is not drawn on)
SanitizeKeep == Digits \cup Latin \cup
    {"-", "_", "'", "\"", "(", ")", "[", "]", "{", "}", ".", ",", ":", ";", "!", "?", " "}

RECURSIVE sanitize_sub(_)
sanitize_sub(s) ==
    IF s = <<>> THEN <<>>
    ELSE <<IF Head(s) \in SanitizeKeep THEN Head(s) ELSE " ">> \o sanitize_sub(Tail(s))

sanitize_item_name(name) == join(split_ws(sanitize_sub(name), <<>>))

extract_nick(raw) ==
    LET i == find(raw, <<"-", "-", "-", ">">>)
    IN  IF i >= 0 THEN strip(SubSeq(raw, 1, i)) ELSE strip(raw)

extract_system(raw) ==
    LET text == strip(raw)
        pos  == find(text, <<"-">>)
    IN  IF pos >= 0 /\ pos > 5 THEN strip(SubSeq(text, 1, pos)) ELSE text

\* LINE_REGEX.match(line) on a stripped line.  On a line of four or more
\* whitespace-separated tokens the pattern matches exactly when the first is
\* all digits and the last two are made of digits, dots and commas; a line of
\* fewer tokens is dropped by parse_lines on either branch.
LINE_REGEX_match(line) ==
    LET p == split_ws(line, <<>>)
        n == Len(p)
    IN  /\ n >= 4
        /\ AllIn(p[1], Digits)
        /\ AllIn(p[n - 1], Digits \cup {".", ","})
        /\ AllIn(p[n], Digits \cup {".", ","})

\* one iteration of the loop of parse_lines: the items (none or one) of a line
parse_line(raw_line) ==
    LET line  == strip(raw_line)
        parts == IF LINE_REGEX_match(line) THEN split_ws(line, <<>>)
                 ELSE split_multi(line, <<>>)
        n     == Len(parts)
        name  == sanitize_item_name(join(SubSeq(parts, 2, n - 2)))
        qty   == float(replace_comma(parts[n - 1]))
        est   == float(replace_comma(parts[n]))
    IN  IF line = <<>> THEN <<>>
        ELSE IF n < 4 THEN <<>>
        ELSE IF ~qty.ok \/ ~est.ok THEN <<>>
        ELSE IF name = <<>> THEN <<>>
        ELSE <<[item_name |-> name, quantity |-> qty.val, est_value |-> est.val]>>

\* a faulty variant: the first line that gives no item ends the parse
RECURSIVE parse_each_aborts(_)
parse_each_aborts(lines) ==
    IF lines = <<>> \/ parse_line(Head(lines)) = <<>> THEN <<>>
    ELSE parse_line(Head(lines)) \o parse_each_aborts(Tail(lines))

RECURSIVE parse_each(_)
parse_each(lines) ==
    IF lines = <<>> THEN <<>> ELSE parse_line(Head(lines)) \o parse_each(Tail(lines))

parse_lines(text) == parse_each(splitlines(text))

\* a clipboard that could not be read, or holds nothing, is None
None == <<>>

\* the two clipboards tried in the other order
parse_clipboards_android_first(adb_clipboard, host_clipboard) ==
    IF adb_clipboard # None /\ parse_lines(adb_clipboard) # <<>>
    THEN parse_lines(adb_clipboard)
    ELSE IF host_clipboard # None /\ parse_lines(host_clipboard) # <<>>
    THEN parse_lines(host_clipboard)
    ELSE <<>>

\* parse_clipboards: host first, then android; None (here <<>>) when neither parses
parse_clipboards(adb_clipboard, host_clipboard) ==
    IF host_clipboard # None /\ parse_lines(host_clipboard) # <<>>
    THEN parse_lines(host_clipboard)
    ELSE IF adb_clipboard # None /\ parse_lines(adb_clipboard) # <<>>
    THEN parse_lines(adb_clipboard)
    ELSE <<>>

parse_from_ocr(ocr_text) ==
    IF strip(ocr_text) = <<>> THEN <<>> ELSE parse_lines(ocr_text)

(***************************************************************************)
(* Bounds and input domains                                                *)
(***************************************************************************)
\* the in-game contract list offers at most this many contracts over a run
MaxContracts == 2

\* at most this many failures (an exception of a step, a kill of the process)
\* are injected over a run
MaxFaults == 1

NULL == <<"<", "N", "U", "L", "L", ">">>

\* composition lines: three that parse (two of them of the same item), one
\* that does not
LineA == <<"1", " ", "a", " ", "1", " ", "1", "0">>
LineB == <<"2", " ", "b", " ", "2", " ", "0", ",", "5">>
LineA2 == <<"2", " ", "a", " ", "3", " ", "2">>
LineBad == <<"a", " ", "b">>

\* the contracts the game may show: what the recognition engine reads in the
\* regions of the card, and the composition the card holds
Cards ==
    {[system |-> <<"J", "i", "t", "a", "4", "4", "-", "x">>,
      player_name |-> <<"V", " ", "-", "-", "-", ">", "c">>,
      game_time |-> <<"9">>,
      composition |-> LineA \o <<"\n">> \o LineB],
     [system |-> <<"J", "-", "1">>,
      player_name |-> <<"V">>,
      game_time |-> <<"9">>,
      composition |-> LineA \o <<"\n">> \o LineA2]}

\* what a clipboard may hold after the copy of a composition: nothing, text
\* that does not parse, the composition
ClipTexts(composition) == {None, LineBad, composition}

\* what the two clipboards may hold when they are read: each any of these, or
\* the host the composition while the device still holds an older text
ClipboardReads(composition) ==
    {[host |-> h, android |-> a] :
        h \in ClipTexts(composition), a \in ClipTexts(composition)}
    \cup {[host |-> composition, android |-> LineB]}

\* what the recognition engine may read in the composition table
OcrTexts(composition) == {<<>>, LineBad, composition}

Percents == {50, 100}
\* the contracts the administrators review
ReviewedContracts == {1}

DiscordIds == {7}
Nicks == {<<"V">>}
CorrectFields == {"player_name", "nope"}
CorrectTexts == {<<"V", "x">>}

(***************************************************************************)
(* database.py: the tables and the statements of each operation, as        *)
(* functions of the connection's view of the database                      *)
(***************************************************************************)
EmptyDb ==
    [contracts |-> <<>>, contract_items |-> {}, inventory |-> {},
     ocr_samples |-> {}, ocr_training_words |-> {}, users |-> <<>>,
     characters |-> {}, payouts |-> {}]

RECURSIVE sum_est_value(_)
sum_est_value(items) ==
    IF items = <<>> THEN 0 ELSE Head(items).est_value + sum_est_value(Tail(items))

\* record_contract, lines 243-244
est_total_of(items) == sum_est_value(items)

\* a faulty variant: the credit ignores the percent
bisk_credited_full(est_total, buyback_percent) == est_total * 100

bisk_credited_of(est_total, buyback_percent) == est_total * buyback_percent

\* a faulty variant: the row takes the place of the last contract
insert_contract_replaces(d, system, player_name, user_id, buyback_percent, items) ==
    LET row == [system |-> system, player_name |-> player_name, user_id |-> user_id,
                buyback_percent |-> buyback_percent,
                est_total |-> est_total_of(items),
                bisk_credited |-> bisk_credited_of(est_total_of(items), buyback_percent)]
    IN  [d EXCEPT !.contracts =
            IF @ = <<>> THEN <<row>> ELSE [@ EXCEPT ![Len(@)] = row]]

\* record_contract, lines 253-260: INSERT INTO contracts
insert_contract(d, system, player_name, user_id, buyback_percent, items) ==
    [d EXCEPT !.contracts = Append(@,
        [system |-> system, player_name |-> player_name, user_id |-> user_id,
         buyback_percent |-> buyback_percent,
         est_total |-> est_total_of(items),
         bisk_credited |-> bisk_credited_of(est_total_of(items), buyback_percent)])]

\* a faulty variant: on a conflict the row that is there is kept
upsert_contract_item_keeps(d, contract_id, item) ==
    LET old == {r \in d.contract_items :
                    r.contract_id = contract_id /\ r.item_name = item.item_name}
    IN  IF old # {} THEN d
        ELSE [d EXCEPT !.contract_items = @ \cup
                {[contract_id |-> contract_id, item_name |-> item.item_name,
                  qty |-> item.quantity, est_value |-> item.est_value]}]

\* record_contract, lines 262-271: INSERT INTO contract_items ... ON CONFLICT
upsert_contract_item(d, contract_id, item) ==
    LET old == {r \in d.contract_items :
                    r.contract_id = contract_id /\ r.item_name = item.item_name}
    IN  [d EXCEPT !.contract_items = (@ \ old) \cup
            {[contract_id |-> contract_id, item_name |-> item.item_name,
              qty |-> item.quantity, est_value |-> item.est_value]}]

\* a faulty variant: the conflict clause overwrites the quantity
upsert_inventory_replaces(d, system, item) ==
    [d EXCEPT !.inventory =
        {r \in @ : ~(r.system = system /\ r.item_name = item.item_name)} \cup
        {[system |-> system, item_name |-> item.item_name, qty |-> item.quantity]}]

\* a faulty variant: no conflict clause, every item adds a row of its own
upsert_inventory_inserts(d, system, item) ==
    [d EXCEPT !.inventory = @ \cup
        {[system |-> system, item_name |-> item.item_name, qty |-> item.quantity]}]

\* record_contract, lines 272-280: INSERT INTO inventory ... ON CONFLICT
upsert_inventory(d, system, item) ==
    LET old == {r \in d.inventory :
                    r.system = system /\ r.item_name = item.item_name}
        qty == IF old = {} THEN item.quantity
               ELSE (CHOOSE r \in old : TRUE).qty + item.quantity
    IN  [d EXCEPT !.inventory = (@ \ old) \cup
            {[system |-> system, item_name |-> item.item_name, qty |-> qty]}]

\* record_contract, lines 261-280: the upserts of the first k items
RECURSIVE record_items(_, _, _, _, _)
record_items(d, contract_id, system, items, k) ==
    IF k = 0 THEN d
    ELSE upsert_inventory(
             upsert_contract_item(record_items(d, contract_id, system, items, k - 1),
                                  contract_id, items[k]),
             system, items[k])

\* record_contract as a whole: the database after the call returned
record_contract(d, system, player_name, buyback_percent, items, user_id) ==
    record_items(insert_contract(d, system, player_name, user_id, buyback_percent, items),
                 Len(d.contracts) + 1, system, items, Len(items))

\* get_or_create_user: the row id of discord_id, inserting the row if absent
user_row(d, discord_id) ==
    IF \E i \in 1..Len(d.users) : d.users[i] = discord_id
    THEN CHOOSE i \in 1..Len(d.users) : d.users[i] = discord_id
    ELSE Len(d.users) + 1

get_or_create_user(d, discord_id) ==
    IF \E i \in 1..Len(d.users) : d.users[i] = discord_id THEN d
    ELSE [d EXCEPT !.users = Append(@, discord_id)]

\* a faulty variant: the back-fill also takes the contracts linked to a user
link_character_relinks(d, user_id, game_nick) ==
    [d EXCEPT
       !.characters = {r \in @ : r.game_nick # game_nick} \cup
                      {[game_nick |-> game_nick, user_id |-> user_id]},
       !.contracts = [i \in 1..Len(@) |->
                        IF @[i].player_name = game_nick
                        THEN [@[i] EXCEPT !.user_id = user_id] ELSE @[i]]]

\* link_character, lines 186-206: the link of the nickname is updated or
\* inserted, then the contracts of the nickname without a user are linked
link_character(d, user_id, game_nick) ==
    [d EXCEPT
       !.characters = {r \in @ : r.game_nick # game_nick} \cup
                      {[game_nick |-> game_nick, user_id |-> user_id]},
       !.contracts = [i \in 1..Len(@) |->
                        IF @[i].player_name = game_nick /\ @[i].user_id = 0
                        THEN [@[i] EXCEPT !.user_id = user_id] ELSE @[i]]]

get_user_by_character(d, game_nick) ==
    IF \E r \in d.characters : r.game_nick = game_nick /\ r.user_id # 0
    THEN (CHOOSE r \in d.characters : r.game_nick = game_nick).user_id
    ELSE 0

\* SELECT COALESCE(SUM(bisk_credited), 0) FROM contracts WHERE user_id = ?
RECURSIVE sum_bisk_credited(_, _)
sum_bisk_credited(contracts, user_id) ==
    IF contracts = <<>> THEN 0
    ELSE (IF Head(contracts).user_id = user_id THEN Head(contracts).bisk_credited ELSE 0)
             + sum_bisk_credited(Tail(contracts), user_id)

\* SELECT COALESCE(SUM(amount), 0) FROM payouts WHERE user_id = ?
RECURSIVE sum_amount(_, _)
sum_amount(payouts, user_id) ==
    IF payouts = {} THEN 0
    ELSE LET r == CHOOSE x \in payouts : TRUE
         IN  (IF r.user_id = user_id THEN r.amount ELSE 0)
                 + sum_amount(payouts \ {r}, user_id)

\* a faulty variant: the payouts are not subtracted
calculate_balance_gross(d, user_id) == sum_bisk_credited(d.contracts, user_id)

calculate_balance(d, user_id) ==
    sum_bisk_credited(d.contracts, user_id) - sum_amount(d.payouts, user_id)

\* store_ocr_sample: INSERT ... ON CONFLICT(contract_id, box_name) DO UPDATE,
\* which sets recognized_text and leaves confirmed_text and status alone
store_ocr_sample(d, contract_id, box_name, recognized_text) ==
    LET old == {r \in d.ocr_samples :
                    r.contract_id = contract_id /\ r.box_name = box_name}
    IN  [d EXCEPT !.ocr_samples =
            IF old = {}
            THEN @ \cup {[contract_id |-> contract_id, box_name |-> box_name,
                          recognized_text |-> recognized_text,
                          confirmed_text |-> NULL, status |-> "pending"]}
            ELSE (@ \ old) \cup
                 {[r EXCEPT !.recognized_text = recognized_text] : r \in old}]

get_ocr_sample(d, contract_id, box_name) ==
    {r \in d.ocr_samples : r.contract_id = contract_id /\ r.box_name = box_name}

\* a faulty variant: the status is set whatever it was
confirm_ocr_contract_all(d, contract_id) ==
    [d EXCEPT !.ocr_samples =
        {IF r.contract_id = contract_id
         THEN [r EXCEPT
                 !.confirmed_text = IF @ = NULL THEN r.recognized_text ELSE @,
                 !.status = "confirmed"]
         ELSE r : r \in @}]

confirm_ocr_contract(d, contract_id) ==
    [d EXCEPT !.ocr_samples =
        {IF r.contract_id = contract_id
         THEN [r EXCEPT
                 !.confirmed_text = IF @ = NULL THEN r.recognized_text ELSE @,
                 !.status = IF @ = "corrected" THEN @ ELSE "confirmed"]
         ELSE r : r \in @}]

\* the final_text column of the rows confirm_ocr_contract returns
confirm_final_texts(d, contract_id) ==
    {r.confirmed_text :
        r \in {x \in confirm_ocr_contract(d, contract_id).ocr_samples :
                   x.contract_id = contract_id}}

\* a faulty variant: the UPDATE takes every sample of the contract
correct_ocr_sample_contract(d, contract_id, box_name, corrected_text) ==
    [d EXCEPT !.ocr_samples =
        {IF r.contract_id = contract_id
         THEN [r EXCEPT !.confirmed_text = corrected_text, !.status = "corrected"]
         ELSE r : r \in @}]

correct_ocr_sample(d, contract_id, box_name, corrected_text) ==
    [d EXCEPT !.ocr_samples =
        {IF r.contract_id = contract_id /\ r.box_name = box_name
         THEN [r EXCEPT !.confirmed_text = corrected_text, !.status = "corrected"]
         ELSE r : r \in @}]

\* a faulty variant: a plain INSERT, the row of a word already there stays
queue_training_words_inserts(d, words) ==
    LET norm == {strip(w) : w \in words} \ {<<>>}
    IN  [d EXCEPT !.ocr_training_words =
            @ \cup {[word |-> w, trained |-> 0] : w \in norm}]

\* queue_training_words: each non-blank word, stripped, upserted with trained = 0
queue_training_words(d, words) ==
    LET norm == {strip(w) : w \in words} \ {<<>>}
    IN  [d EXCEPT !.ocr_training_words =
            {r \in @ : r.word \notin norm} \cup
            {[word |-> w, trained |-> 0] : w \in norm}]

\* consume_training_words: the SELECT, then the UPDATE of what it returned
untrained_words(d) == {r.word : r \in {x \in d.ocr_training_words : x.trained = 0}}

\* a faulty variant: the words returned are not marked
consume_training_words_keeps(d) == d

consume_training_words(d) ==
    [d EXCEPT !.ocr_training_words = {[r EXCEPT !.trained = 1] : r \in @}]

(***************************************************************************)
(* discord_bot.py: _extract_training_words, re.findall(r"[\w\-']+", text)  *)
(***************************************************************************)
IsWordChar(c) == c \in Digits \cup Latin \cup {"_", "-", "'"}

RECURSIVE findall_words(_, _)
findall_words(s, cur) ==
    IF s = <<>> THEN (IF cur = <<>> THEN {} ELSE {cur})
    ELSE IF IsWordChar(Head(s)) THEN findall_words(Tail(s), Append(cur, Head(s)))
    ELSE (IF cur = <<>> THEN {} ELSE {cur}) \cup findall_words(Tail(s), <<>>)

_extract_training_words(texts) == UNION {findall_words(t, <<>>) : t \in texts}

(***************************************************************************)
(* State                                                                   *)
(***************************************************************************)
VARIABLES
    has_discord,    \* app.py: the front end is enabled (token set, discord.py present)
    copy_sequence,  \* config.ui has a non-empty "copy_sequence"
    buyback_percent, \* Config.buyback_percent
    stop_event,     \* ContractProcessor._stop_event
    pc,             \* where run_forever / _process_cycle stands
    cy,             \* the local variables of the cycle in progress (or just ended)
    trace,          \* what the cycle did on the device and how it slept, in order
    outcome,        \* how the cycle ended
    start,          \* Snapshot when the cycle first used the connection
    percent,        \* BuybackManager._percent
    db,             \* the database as the one connection sees it
    dbc,            \* the committed database (the file)
    user_words,     \* the lines of OcrEngine.user_words_file
    notified,       \* the contract ids notification_callback was called with
    faults,         \* the failures injected so far
    call            \* the frame of a call of the device client or the recognition
                    \* engine followed step by step: its arguments, locals, result

vars == <<has_discord, copy_sequence, buyback_percent, stop_event, pc, cy, trace, outcome, start,
          percent, db, dbc, user_words, notified, faults, call>>

config == <<has_discord, copy_sequence, buyback_percent>>

\* no call is followed
NoCall == [fn |-> "none"]

\* the tables a cycle writes through record_contract and store_ocr_sample
Ledger(d) ==
    [contracts |-> d.contracts, contract_items |-> d.contract_items,
     inventory |-> d.inventory, ocr_samples |-> d.ocr_samples]

\* what a cycle is compared with when it has ended: the ledger tables and the
\* notifications handed over
Snapshot(d, n) ==
    [contracts |-> d.contracts, contract_items |-> d.contract_items,
     inventory |-> d.inventory, ocr_samples |-> d.ocr_samples, notified |-> n]

CyInit ==
    [words |-> {}, has_contract |-> FALSE, composition |-> <<>>,
     host_clipboard |-> None, android_clipboard |-> None, ocr_texts |-> <<>>, system_name |-> <<>>, player_name |-> <<>>, items |-> <<>>,
     source |-> "none", buyback_percent |-> 0, percent_reads |-> 0,
     user_id |-> 0, contract_id |-> 0, rc_i |-> 0,
     artifacts_failed |-> FALSE, callback_failed |-> FALSE]

\* app.py line 23: the connection is opened by the thread that builds the
\* application; sqlite3.connect (database.py line 19) keeps check_same_thread
ConnectionThread == "main"

\* app.py lines 58-61 and 106: a worker thread with the front end, else the caller
ProcessorThread == IF has_discord THEN "worker" ELSE "main"

\* every use of the connection by another thread raises ProgrammingError
check_same_thread(thread) == thread = ConnectionThread

Init ==
    /\ has_discord \in BOOLEAN
    /\ copy_sequence \in BOOLEAN
    /\ buyback_percent \in Percents
    /\ stop_event = FALSE
    /\ pc = "loop"
    /\ cy = CyInit
    /\ trace = <<>>
    /\ outcome = "none"
    /\ start = Snapshot(EmptyDb, <<>>)
    /\ percent = buyback_percent
    /\ db = EmptyDb
    /\ dbc = EmptyDb
    /\ user_words = {}
    /\ notified = <<>>
    /\ faults = 0
    /\ call = NoCall

(***************************************************************************)
(* processor.py: run_forever and _process_cycle                            *)
(***************************************************************************)
\* an exception leaves _process_cycle for the guard of run_forever
Raise(event) ==
    /\ pc' = "guard"
    /\ outcome' = "exception"
    /\ trace' = Append(trace, event)

\* a faulty variant: the test of the loop does not look at the stop event
LoopCheckIgnoresStop ==
    /\ pc = "loop"
    /\ pc' = "drain"
    /\ cy' = CyInit
    /\ trace' = <<>>
    /\ outcome' = "running"
    /\ start' = Snapshot(EmptyDb, <<>>)
    /\ UNCHANGED <<call, faults, config, stop_event, percent, db, dbc, user_words, notified>>

\* line 47: while not self._stop_event.is_set()
LoopCheck ==
    /\ pc = "loop"
    /\ IF stop_event
       THEN /\ pc' = "returned"
            /\ UNCHANGED <<cy, trace, outcome, start>>
       ELSE /\ pc' = "drain"
            /\ cy' = CyInit
            /\ trace' = <<>>
            /\ outcome' = "running"
            /\ start' = Snapshot(EmptyDb, <<>>)
    /\ UNCHANGED <<call, faults, config, stop_event, percent, db, dbc, user_words, notified>>

\* a faulty variant: the loop ends on the first failed cycle
RunForeverReturns ==
    /\ pc' = "returned"
    /\ trace' = Append(trace, "sleep_poll")

\* lines 50-52: except Exception: log, time.sleep(poll_interval)
RunForeverExcept ==
    /\ pc' = "loop"
    /\ trace' = Append(trace, "sleep_poll")

GuardSleep ==
    /\ pc = "guard"
    /\ RunForeverExcept
    /\ UNCHANGED <<call, faults, config, stop_event, cy, outcome, start, percent, db, dbc,
                   user_words, notified>>

\* _apply_pending_training, line 254: consume_training_words, outside the try
ConsumeTrainingWords ==
    /\ pc = "drain"
    /\ IF check_same_thread(ProcessorThread)
       THEN /\ db' = consume_training_words(db)
            /\ dbc' = consume_training_words(db)
            /\ cy' = [cy EXCEPT !.words = untrained_words(db)]
            /\ pc' = IF untrained_words(db) = {} THEN "open" ELSE "add_words"
            /\ start' = Snapshot(dbc, notified)
            /\ UNCHANGED <<trace, outcome>>
       ELSE /\ Raise("ProgrammingError")
            /\ UNCHANGED <<cy, db, dbc, start>>
    /\ UNCHANGED <<call, faults, config, stop_event, percent, user_words, notified>>

\* ocr.py add_training_words: the new stripped non-blank words are appended
add_training_words(file, words) == file \cup ({strip(w) : w \in words} \ {<<>>})

\* _apply_pending_training, lines 257-260
AddTrainingWords ==
    /\ pc = "add_words"
    /\ user_words' = add_training_words(user_words, cy.words)
    /\ pc' = "open"
    /\ UNCHANGED <<call, faults, config, stop_event, cy, trace, outcome, start, percent, db, dbc,
                   notified>>

\* lines 56-60: open_contracts_steps, then the first capture
OpenContracts ==
    /\ pc = "open"
    /\ \E captured \in BOOLEAN :
         IF captured
         THEN /\ pc' = "marker"
              /\ trace' = trace \o <<"open_contracts_steps", "screencap">>
              /\ UNCHANGED outcome
         ELSE /\ pc' = "loop"
              /\ trace' = trace \o <<"open_contracts_steps", "screencap_failed">>
              /\ outcome' = "capture_failed"
    /\ UNCHANGED <<call, faults, config, stop_event, cy, start, percent, db, dbc, user_words,
                   notified>>

\* a faulty variant: the window stays open
NoContractLeavesWindow == <<"sleep_poll">>

\* lines 68-71: what a cycle without a contract does before it returns
NoContractSteps == <<"close_contracts_window", "sleep_poll">>

\* a faulty variant: the contract is accepted although nothing was parsed
ParseFailureAccepts ==
    <<"close_contract_card", "accept_contract", "close_contracts_window", "sleep_poll">>

\* lines 142-144: what a cycle does when the composition did not parse
ParseFailureSteps == <<"close_contract_card", "close_contracts_window", "sleep_poll">>

\* lines 61-72: the marker region; without text the window is closed
MarkerCheck ==
    /\ pc = "marker"
    /\ \E has_contract \in BOOLEAN :
         /\ has_contract => Len(dbc.contracts) < MaxContracts
         /\ cy' = [cy EXCEPT !.has_contract = has_contract]
         /\ IF has_contract
            THEN /\ pc' = "select"
                 /\ UNCHANGED <<trace, outcome>>
            ELSE /\ pc' = "loop"
                 /\ trace' = trace \o NoContractSteps
                 /\ outcome' = "no_contract"
    /\ UNCHANGED <<call, faults, config, stop_event, start, percent, db, dbc, user_words, notified>>

\* lines 75-107: open the first contract, capture the card, read its regions
SelectFirst ==
    /\ pc = "select"
    /\ \E captured \in BOOLEAN, card \in Cards :
         IF captured
         THEN /\ pc' = "compose"
              /\ trace' = trace \o <<"first_contract_tap", "screencap">>
              /\ cy' = [cy EXCEPT
                          !.composition = card.composition,
                          !.ocr_texts = <<[box_name |-> "system", text |-> card.system],
                                          [box_name |-> "player_name", text |-> card.player_name],
                                          [box_name |-> "game_time", text |-> card.game_time]>>,
                          !.system_name = extract_system(card.system),
                          !.player_name = extract_nick(card.player_name)]
              /\ UNCHANGED outcome
         ELSE /\ pc' = "loop"
              /\ trace' = trace \o <<"first_contract_tap", "screencap_failed">>
              /\ outcome' = "capture_failed"
              /\ UNCHANGED cy
    /\ UNCHANGED <<call, faults, config, stop_event, start, percent, db, dbc, user_words, notified>>

\* the device sequences of lines 109-113
CompositionSteps ==
    <<"swipe_to_composition", "composition_fixed_tap">>
        \o (IF copy_sequence THEN <<"copy_sequence">> ELSE <<>>)

\* lines 119-123: the clipboards count only when a copy sequence is configured
clipboard_items(android_clipboard, host_clipboard) ==
    IF copy_sequence THEN parse_clipboards(android_clipboard, host_clipboard)
    ELSE <<>>

clipboard_source(android_clipboard, host_clipboard) ==
    IF clipboard_items(android_clipboard, host_clipboard) = <<>> THEN "none"
    ELSE IF host_clipboard # None /\ parse_lines(host_clipboard) # <<>> THEN "host"
    ELSE "android"

\* lines 109-123: go to the composition, copy, read both clipboards, parse
Compose ==
    /\ pc = "compose"
    /\ \E read \in ClipboardReads(cy.composition) :
         LET host_clipboard    == read.host
             android_clipboard == read.android
         IN  /\ cy' = [cy EXCEPT
                         !.host_clipboard = host_clipboard,
                         !.android_clipboard = android_clipboard,
                         !.items = clipboard_items(android_clipboard, host_clipboard),
                         !.source = clipboard_source(android_clipboard, host_clipboard)]
             /\ pc' = IF clipboard_items(android_clipboard, host_clipboard) = <<>>
                      THEN "fallback" ELSE "percent"
    /\ trace' = trace \o CompositionSteps \o <<"sleep_4">>
    /\ UNCHANGED <<call, faults, config, stop_event, outcome, start, percent, db, dbc, user_words,
                   notified>>

\* lines 125-145: the OCR fallback and, without items, the cleanup
Fallback ==
    /\ pc = "fallback"
    /\ \E captured \in BOOLEAN, ocr_text \in OcrTexts(cy.composition) :
         LET text  == IF captured THEN ocr_text ELSE <<>>
             items == IF captured THEN parse_from_ocr(ocr_text) ELSE <<>>
             shot  == IF captured THEN "screencap" ELSE "screencap_failed"
         IN  /\ cy' = [cy EXCEPT
                         !.items = items,
                         !.source = IF items = <<>> THEN "none" ELSE "ocr",
                         !.ocr_texts =
                             IF text # <<>>
                             THEN Append(@, [box_name |-> "composition_table",
                                             text |-> text])
                             ELSE @]
             /\ IF items = <<>>
                THEN /\ pc' = "loop"
                     /\ trace' = Append(trace, shot) \o ParseFailureSteps
                     /\ outcome' = "parse_failure"
                ELSE /\ pc' = "percent"
                     /\ trace' = Append(trace, shot)
                     /\ UNCHANGED outcome
    /\ UNCHANGED <<call, faults, config, stop_event, start, percent, db, dbc, user_words, notified>>

\* line 147: buyback_percent = self.buyback_manager.percent
ReadPercent ==
    /\ pc = "percent"
    /\ cy' = [cy EXCEPT !.buyback_percent = percent,
                        !.percent_reads = @ + 1]
    /\ pc' = "user"
    /\ UNCHANGED <<call, faults, config, stop_event, trace, outcome, start, percent, db, dbc,
                   user_words, notified>>

\* line 148: user_id = self.db.get_user_by_character(player_name)
GetUser ==
    /\ pc = "user"
    /\ IF check_same_thread(ProcessorThread)
       THEN /\ cy' = [cy EXCEPT !.user_id = get_user_by_character(db, cy.player_name)]
            /\ pc' = "record"
            /\ UNCHANGED <<trace, outcome, db>>
       ELSE /\ Raise("ProgrammingError")
            /\ UNCHANGED <<cy, db>>
    /\ UNCHANGED <<call, faults, config, stop_event, start, percent, dbc, user_words, notified>>

\* sqlite3.Connection.__exit__ (the with blocks of database.py): commit when
\* the block ended normally, rollback when an exception left it
ExitCommit == db' = db /\ dbc' = db

\* a faulty variant: what the block wrote is committed although it failed
ExitCommitsAnyway == db' = db /\ dbc' = db

ExitRollback == db' = dbc /\ dbc' = dbc

\* record_contract, lines 243-260: the totals and the INSERT of the contract
RecordContractInsert ==
    /\ pc = "record"
    /\ IF check_same_thread(ProcessorThread)
       THEN /\ db' = insert_contract(db, cy.system_name, cy.player_name, cy.user_id,
                                     cy.buyback_percent, cy.items)
            /\ cy' = [cy EXCEPT !.contract_id = Len(db.contracts) + 1, !.rc_i = 1]
            /\ pc' = "record_items"
            /\ UNCHANGED <<trace, outcome>>
       ELSE /\ Raise("ProgrammingError")
            /\ UNCHANGED <<cy, db>>
    /\ UNCHANGED <<call, faults, config, stop_event, start, percent, dbc, user_words, notified>>

\* record_contract, lines 261-280: the two upserts of the next item
RecordContractItem ==
    /\ pc = "record_items"
    /\ cy.rc_i <= Len(cy.items)
    /\ db' = upsert_inventory(
                upsert_contract_item(db, cy.contract_id, cy.items[cy.rc_i]),
                cy.system_name, cy.items[cy.rc_i])
    /\ cy' = [cy EXCEPT !.rc_i = @ + 1]
    /\ UNCHANGED <<call, faults, config, stop_event, pc, trace, outcome, start, percent, dbc,
                   user_words, notified>>

\* record_contract, line 252 (leaving the with block) and line 281
RecordContractCommit ==
    /\ pc = "record_items"
    /\ cy.rc_i > Len(cy.items)
    /\ ExitCommit
    /\ pc' = "persist"
    /\ UNCHANGED <<call, faults, config, stop_event, cy, trace, outcome, start, percent,
                   user_words, notified>>

\* _persist_ocr_artifacts, lines 208-234: a sample row for each of the first k
\* entries of ocr_texts, each in a transaction of its own
RECURSIVE store_samples(_, _, _, _)
store_samples(d, contract_id, ocr_texts, k) ==
    IF k = 0 THEN d
    ELSE store_ocr_sample(store_samples(d, contract_id, ocr_texts, k - 1),
                          contract_id, ocr_texts[k].box_name, ocr_texts[k].text)

\* lines 157-164: persist the artifacts, an exception is logged and dropped
PersistArtifacts ==
    /\ pc = "persist"
    /\ IF check_same_thread(ProcessorThread)
       THEN /\ db' = store_samples(db, cy.contract_id, cy.ocr_texts, Len(cy.ocr_texts))
            /\ dbc' = store_samples(db, cy.contract_id, cy.ocr_texts, Len(cy.ocr_texts))
            /\ UNCHANGED cy
       ELSE /\ cy' = [cy EXCEPT !.artifacts_failed = TRUE]
            /\ UNCHANGED <<db, dbc>>
    /\ pc' = "finish"
    /\ UNCHANGED <<call, faults, config, stop_event, trace, outcome, start, percent, user_words,
                   notified>>

\* the device sequences of lines 166-168
FinishSteps == <<"close_contract_card", "accept_contract", "close_contracts_window">>

\* lines 166-172: close the card, accept, close the window, cool down
FinishUi ==
    /\ pc = "finish"
    /\ trace' = trace \o FinishSteps \o <<"sleep_cooldown">>
    /\ pc' = "notify"
    /\ UNCHANGED <<call, faults, config, stop_event, cy, outcome, start, percent, db, dbc,
                   user_words, notified>>

\* lines 174-189: the callback is called with the notification unless building
\* it fails (_resolve_discord_id reads the connection when user_id is set)
Notify ==
    /\ pc = "notify"
    /\ IF cy.user_id = 0 \/ check_same_thread(ProcessorThread)
       THEN /\ notified' = Append(notified, cy.contract_id)
            /\ UNCHANGED cy
       ELSE /\ cy' = [cy EXCEPT !.callback_failed = TRUE]
            /\ UNCHANGED notified
    /\ pc' = "loop"
    /\ outcome' = "success"
    /\ UNCHANGED <<call, faults, config, stop_event, trace, start, percent, db, dbc, user_words>>

(***************************************************************************)
(* discord_bot.py: the commands, run one at a time by the event loop of    *)
(* the main thread while the bot runs; buyback.py                          *)
(***************************************************************************)
BotRunning == has_discord /\ ~stop_event

\* register, lines 81-91
Register ==
    /\ BotRunning
    /\ \E discord_id \in DiscordIds, game_nick \in Nicks :
         LET d1 == get_or_create_user(db, discord_id)
             d2 == link_character(d1, user_row(d1, discord_id), game_nick)
         IN  db' = d2 /\ dbc' = d2
    /\ UNCHANGED <<call, faults, config, stop_event, pc, cy, trace, outcome, start, percent,
                   user_words, notified>>

\* BuybackManager.set_percent
set_percent(value) == percent' = value

\* set_buyback, lines 108-122 (an administrator's call)
SetBuyback ==
    /\ BotRunning
    /\ \E value \in Percents : set_percent(value)
    /\ UNCHANGED <<call, faults, config, stop_event, pc, cy, trace, outcome, start, db, dbc,
                   user_words, notified>>

\* ocr_confirm, lines 145-173
OcrConfirm ==
    /\ BotRunning
    /\ \E contract_id \in ReviewedContracts :
         LET d1    == confirm_ocr_contract(db, contract_id)
             words == _extract_training_words(confirm_final_texts(db, contract_id))
             d2    == queue_training_words(d1, words)
         IN  db' = d2 /\ dbc' = d2
    /\ UNCHANGED <<call, faults, config, stop_event, pc, cy, trace, outcome, start, percent,
                   user_words, notified>>

\* ocr_correct, lines 181-222
OcrCorrect ==
    /\ BotRunning
    /\ \E contract_id \in ReviewedContracts, field \in CorrectFields,
          corrected_text \in CorrectTexts :
         LET d1 == correct_ocr_sample(db, contract_id, field, corrected_text)
             d2 == queue_training_words(d1, _extract_training_words({corrected_text}))
         IN  IF get_ocr_sample(db, contract_id, field) = {}
             THEN UNCHANGED <<db, dbc>>
             ELSE db' = d2 /\ dbc' = d2
    /\ UNCHANGED <<call, faults, config, stop_event, pc, cy, trace, outcome, start, percent,
                   user_words, notified>>

\* app.py lines 70-79: the bot ends, processor.stop() is called
Stop ==
    /\ BotRunning
    /\ stop_event' = TRUE
    /\ UNCHANGED <<call, faults, config, pc, cy, trace, outcome, start, percent, db, dbc,
                   user_words, notified>>

\* app.py: the service is started again, with or without the front end: the
\* database file and the user-words file stay, an open transaction is lost,
\* the buyback percent is seeded from the configuration again
Started ==
    /\ has_discord' \in BOOLEAN
    /\ percent' = buyback_percent
    /\ stop_event' = FALSE
    /\ pc' = "loop"
    /\ cy' = CyInit
    /\ trace' = <<>>
    /\ outcome' = "none"
    /\ start' = Snapshot(EmptyDb, <<>>)
    /\ db' = dbc
    /\ UNCHANGED <<call, copy_sequence, buyback_percent, dbc, user_words, notified>>

\* the service is stopped between two cycles, or after run_forever returned,
\* and started again
Restart ==
    /\ pc \in {"loop", "returned"}
    /\ Started
    /\ UNCHANGED faults

(***************************************************************************)
(* Failures: what the steps of a cycle do when the device, the database,   *)
(* the file system or the callback fails, and a kill of the process        *)
(***************************************************************************)
Fault == faults < MaxFaults /\ faults' = faults + 1

\* the steps between which an exception leaves _process_cycle: the database
\* calls (sqlite3.Error) and the device and recognition calls (AdbError)
DatabaseSteps == {"drain", "user", "record", "record_items"}

DeviceSteps == {"open", "marker", "select", "compose", "fallback", "finish"}

\* a faulty variant: a failure of record_contract is dropped and the cycle
\* goes on to its last device sequences
StepRaisesRecordDropped ==
    /\ pc \in DatabaseSteps \cup DeviceSteps
    /\ check_same_thread(ProcessorThread)
    /\ Fault
    /\ IF pc \in {"record", "record_items"}
       THEN pc' = "finish" /\ UNCHANGED <<trace, outcome>>
       ELSE Raise(IF pc \in DatabaseSteps THEN "sqlite3.Error" ELSE "AdbError")
    /\ ExitRollback
    /\ UNCHANGED <<call, config, stop_event, cy, start, percent, user_words, notified>>

\* adb.py execute_steps lines 181-218 and database.py: the call raises; a
\* transaction record_contract had open is rolled back on the way out
StepRaises ==
    /\ pc \in DatabaseSteps \cup DeviceSteps
    /\ check_same_thread(ProcessorThread)
    /\ Fault
    /\ Raise(IF pc \in DatabaseSteps THEN "sqlite3.Error" ELSE "AdbError")
    /\ ExitRollback
    /\ UNCHANGED <<call, config, stop_event, cy, start, percent, user_words, notified>>

\* ocr.py add_training_words lines 100-117: the file cannot be read or
\* written, the exception is logged and dropped
AddTrainingWordsFails ==
    /\ pc = "add_words"
    /\ Fault
    /\ pc' = "open"
    /\ UNCHANGED <<call, config, stop_event, cy, trace, outcome, start, percent, db, dbc,
                   user_words, notified>>

\* a faulty variant: the failure of _persist_ocr_artifacts is not caught
PersistFailsEscalates ==
    /\ pc = "persist"
    /\ check_same_thread(ProcessorThread)
    /\ Fault
    /\ Raise("OSError")
    /\ cy' = [cy EXCEPT !.artifacts_failed = TRUE]
    /\ UNCHANGED <<call, config, stop_event, start, percent, db, dbc, user_words, notified>>

\* processor.py lines 159-164: _persist_ocr_artifacts raises after it stored
\* the samples of the first k regions
PersistFails ==
    /\ pc = "persist"
    /\ check_same_thread(ProcessorThread)
    /\ Fault
    /\ \E k \in 0..(Len(cy.ocr_texts) - 1) :
         /\ db' = store_samples(db, cy.contract_id, cy.ocr_texts, k)
         /\ dbc' = store_samples(db, cy.contract_id, cy.ocr_texts, k)
    /\ cy' = [cy EXCEPT !.artifacts_failed = TRUE]
    /\ pc' = "finish"
    /\ UNCHANGED <<call, config, stop_event, trace, outcome, start, percent, user_words,
                   notified>>

\* processor.py lines 175-189: the callback raises, the exception is logged
CallbackFails ==
    /\ pc = "notify"
    /\ Fault
    /\ cy' = [cy EXCEPT !.callback_failed = TRUE]
    /\ pc' = "loop"
    /\ outcome' = "success"
    /\ UNCHANGED <<call, config, stop_event, trace, start, percent, db, dbc, user_words,
                   notified>>

\* the process is killed inside a cycle and the service is started again
Crash ==
    /\ pc \notin {"loop", "returned"}
    /\ Fault
    /\ Started

Cycle ==
    \/ LoopCheck
    \/ GuardSleep
    \/ ConsumeTrainingWords
    \/ AddTrainingWords
    \/ OpenContracts
    \/ MarkerCheck
    \/ SelectFirst
    \/ Compose
    \/ Fallback
    \/ ReadPercent
    \/ GetUser
    \/ RecordContractInsert
    \/ RecordContractItem
    \/ RecordContractCommit
    \/ PersistArtifacts
    \/ FinishUi
    \/ Notify

Commands ==
    \/ Register
    \/ SetBuyback
    \/ OcrConfirm
    \/ OcrCorrect
    \/ Stop

Next == Cycle \/ Commands \/ Restart

Spec == Init /\ [][Next]_vars

Faults ==
    \/ StepRaises
    \/ AddTrainingWordsFails
    \/ PersistFails
    \/ CallbackFails
    \/ Crash

NextFault == Next \/ Faults

SpecFault == Init /\ [][NextFault]_vars

\* the thread that runs run_forever is scheduled: a step of the loop that can
\* be taken is taken
SpecLive == Spec /\ WF_vars(Cycle)

(***************************************************************************)
(* The accounts: two Discord users, two characters and a database file     *)
(* that may hold a payout, with the cycle reduced to the contract it       *)
(* records                                                                 *)
(***************************************************************************)
MaxAccountContracts == 2

AccountDiscordIds == {7, 8}
AccountNicks == {<<"V">>, <<"W">>}

LineC == <<"1", " ", "a", " ", "1", " ", "1", "0", "0">>
LineD == <<"1", " ", "a", " ", "1", " ", "5", "0">>

AccountCards ==
    {[system |-> <<"J", "-", "1">>, player_name |-> n, game_time |-> <<"9">>,
      composition |-> c] : n \in AccountNicks, c \in {LineC, LineD}}

\* the payouts table is written by no operation of the program: its rows are
\* those of the database file the service is started on
PayoutRow == [id |-> 1, user_id |-> 1, amount |-> 30000]

DatabaseFiles ==
    {EmptyDb, [EmptyDb EXCEPT !.users = <<7>>, !.payouts = {PayoutRow}]}

InitAccounts ==
    /\ has_discord \in BOOLEAN
    /\ copy_sequence = TRUE
    /\ buyback_percent \in Percents
    /\ stop_event = FALSE
    /\ pc = "loop"
    /\ cy = CyInit
    /\ trace = <<>>
    /\ outcome = "none"
    /\ start = Snapshot(EmptyDb, <<>>)
    /\ percent = buyback_percent
    /\ db \in DatabaseFiles
    /\ dbc = db
    /\ user_words = {}
    /\ notified = <<>>
    /\ faults = 0
    /\ call = NoCall

\* processor.py lines 54-189, a cycle that finds a contract and reads its
\* composition from the clipboard, from its first database call to its last
AccountsCycle ==
    /\ check_same_thread(ProcessorThread)
    /\ Len(db.contracts) < MaxAccountContracts
    /\ \E card \in AccountCards :
         LET system_name == extract_system(card.system)
             player_name == extract_nick(card.player_name)
             items       == parse_clipboards(card.composition, None)
             ocr_texts   == <<[box_name |-> "system", text |-> card.system],
                              [box_name |-> "player_name", text |-> card.player_name],
                              [box_name |-> "game_time", text |-> card.game_time]>>
             d1 == consume_training_words(db)
             d2 == record_contract(d1, system_name, player_name, percent, items,
                                   get_user_by_character(d1, player_name))
             d3 == store_samples(d2, Len(d2.contracts), ocr_texts, Len(ocr_texts))
         IN  db' = d3 /\ dbc' = d3
    /\ UNCHANGED <<call, faults, config, stop_event, pc, cy, trace, outcome, start, percent,
                   user_words, notified>>

\* register, lines 81-91, for any of the users and characters
AccountsRegister ==
    /\ BotRunning
    /\ \E discord_id \in AccountDiscordIds, game_nick \in AccountNicks :
         LET d1 == get_or_create_user(db, discord_id)
             d2 == link_character(d1, user_row(d1, discord_id), game_nick)
         IN  db' = d2 /\ dbc' = d2
    /\ UNCHANGED <<call, faults, config, stop_event, pc, cy, trace, outcome, start, percent,
                   user_words, notified>>

\* what the balance command replies to discord_id, lines 94-104
balance_reply(d, discord_id) ==
    calculate_balance(get_or_create_user(d, discord_id),
                      user_row(get_or_create_user(d, discord_id), discord_id))

\* balance, lines 94-104: the user row is created if it is not there
AccountsBalance ==
    /\ BotRunning
    /\ \E discord_id \in AccountDiscordIds :
         /\ db' = get_or_create_user(db, discord_id)
         /\ dbc' = get_or_create_user(db, discord_id)
    /\ UNCHANGED <<call, faults, config, stop_event, pc, cy, trace, outcome, start, percent,
                   user_words, notified>>

NextAccounts == AccountsCycle \/ AccountsRegister \/ AccountsBalance \/ Restart

SpecAccounts == InitAccounts /\ [][NextAccounts]_vars

(***************************************************************************)
(* The ledger under the texts a composition may hold: lines the strict     *)
(* pattern takes, lines only the split at wide gaps takes, lines that are  *)
(* dropped; the cycle reduced to its database calls                       *)
(***************************************************************************)
MaxLedgerContracts == 2

\* a line with wide gaps and a signed quantity, one whose name sanitizes to
\* nothing, one whose quantity is no number, a blank one
LineNeg == <<"1", " ", " ", "a", " ", " ", "-", "5", " ", " ", "1", "0">>
LineNoName == <<"1", " ", "#", " ", "1", " ", "1", "0">>
LineNoQty == <<"1", " ", " ", "a", " ", " ", "x", " ", " ", "1", "0">>
LineBlank == <<" ", " ">>

LedgerTexts ==
    {LineA,
     LineNeg,
     LineBad \o <<"\n">> \o LineB \o <<"\n">> \o LineBlank \o <<"\n">> \o LineA,
     LineNoName \o <<"\n">> \o LineNoQty}

LedgerCards ==
    {[system |-> sys, player_name |-> <<"V">>, game_time |-> <<"9">>,
      composition |-> c] : sys \in {<<"J", "-", "1">>, <<"K", "2">>}, c \in LedgerTexts}

InitLedger ==
    /\ has_discord \in BOOLEAN
    /\ copy_sequence = TRUE
    /\ buyback_percent \in Percents
    /\ stop_event = FALSE
    /\ pc = "loop"
    /\ cy = CyInit
    /\ trace = <<>>
    /\ outcome = "none"
    /\ start = Snapshot(EmptyDb, <<>>)
    /\ percent = buyback_percent
    /\ db = EmptyDb
    /\ dbc = EmptyDb
    /\ user_words = {}
    /\ notified = <<>>
    /\ faults = 0
    /\ call = NoCall

\* processor.py lines 54-189, a cycle that finds a contract and reads its
\* composition from the clipboard: its database calls, the contract when
\* the text gave items, and what it leaves in its locals
LedgerCycle ==
    /\ check_same_thread(ProcessorThread)
    /\ Len(db.contracts) < MaxLedgerContracts
    /\ \E card \in LedgerCards :
         LET system_name == extract_system(card.system)
             player_name == extract_nick(card.player_name)
             items       == parse_clipboards(None, card.composition)
             ocr_texts   == <<[box_name |-> "system", text |-> card.system],
                              [box_name |-> "player_name", text |-> card.player_name],
                              [box_name |-> "game_time", text |-> card.game_time]>>
             d1 == consume_training_words(db)
             d2 == record_contract(d1, system_name, player_name, percent, items,
                                   get_user_by_character(d1, player_name))
             d3 == store_samples(d2, Len(d2.contracts), ocr_texts, Len(ocr_texts))
         IN  /\ cy' = [CyInit EXCEPT !.has_contract = TRUE,
                                     !.composition = card.composition,
                                     !.host_clipboard = card.composition,
                                     !.system_name = system_name,
                                     !.player_name = player_name,
                                     !.ocr_texts = ocr_texts,
                                     !.items = items]
             /\ IF items = <<>>
                THEN db' = d1 /\ dbc' = d1 /\ outcome' = "parse_failure"
                ELSE db' = d3 /\ dbc' = d3 /\ outcome' = "success"
    /\ UNCHANGED <<call, faults, config, stop_event, pc, trace, start, percent,
                   user_words, notified>>

NextLedger == LedgerCycle \/ Restart

SpecLedger == InitLedger /\ [][NextLedger]_vars

(***************************************************************************)
(* adb.py: execute_steps and screencap, followed step by step on the       *)
(* sequences a configuration may hold and the outcomes a device may give   *)
(***************************************************************************)
MaxSteps == 3

\* the attempts of screencap, line 136
MaxAttempts == 3

\* execute_steps' default_delay, line 182, in seconds
default_delay == 4

UpperLetters ==
    <<"A", "B", "C", "D", "E", "F", "G", "H", "I", "J", "K", "L", "M",
      "N", "O", "P", "Q", "R", "S", "T", "U", "V", "W", "X", "Y", "Z">>
LowerLetters ==
    <<"a", "b", "c", "d", "e", "f", "g", "h", "i", "j", "k", "l", "m",
      "n", "o", "p", "q", "r", "s", "t", "u", "v", "w", "x", "y", "z">>

\* str.lower()
lower(s) ==
    [i \in 1..Len(s) |->
        IF \E k \in 1..26 : UpperLetters[k] = s[i]
        THEN LowerLetters[CHOOSE k \in 1..26 : UpperLetters[k] = s[i]]
        ELSE s[i]]

\* dict.get(key, default)
get(step, key, default) == IF key \in DOMAIN step THEN step[key] ELSE default

\* the steps a sequence of the configuration may hold: well-formed ones (one
\* of them with the key "type" and capitals), a tap without its y, a step
\* without an action, a step of an unknown action
UiSteps ==
    {[action |-> <<"t", "a", "p">>, x |-> 1, y |-> 2],
     [type |-> <<"T", "A", "P">>, x |-> 3, y |-> 4, delay |-> 1],
     [action |-> <<"t", "a", "p">>, x |-> 1],
     [action |-> <<"s", "w", "i", "p", "e">>, x1 |-> 1, y1 |-> 2, x2 |-> 3, y2 |-> 4],
     [action |-> <<"s", "l", "e", "e", "p">>, seconds |-> 2],
     [action |-> <<"s", "h", "e", "l", "l">>,
      command |-> <<"i", "n", "p", "u", "t", " ", "k", "e", "y", "e", "v", "e", "n", "t">>],
     [x |-> 1, y |-> 2],
     [action |-> <<"d", "r", "a", "g">>]}

StepSequences == UNION {[1..n -> UiSteps] : n \in 0..MaxSteps}

\* what the device may answer to screencap -p: an error of the command,
\* bytes that do not decode, an image
CaptureOutcomes == {"AdbError", "decode_error", "image"}

\* lines 184-187: action = step.get("action") or step.get("type")
step_action(step) ==
    IF get(step, "action", None) # None THEN get(step, "action", None)
    ELSE get(step, "type", None)

\* lines 184-218, one iteration of the loop: the commands sent to the device
\* and the sleeps, in order, and the exception that leaves the loop; ok says
\* whether the device accepts the command
execute_step(step, ok) ==
    LET action == step_action(step)
        done(ops)  == [ops |-> ops, raised |-> "none"]
        raise(exc) == [ops |-> <<>>, raised |-> exc]
        pause      == <<"sleep", get(step, "delay", default_delay)>>
    IN  IF action = None THEN done(<<>>)
        ELSE IF lower(action) = <<"t", "a", "p">>
        THEN IF "x" \notin DOMAIN step \/ "y" \notin DOMAIN step THEN raise("KeyError")
             ELSE IF ~ok THEN raise("AdbError")
             ELSE done(<<<<"tap", step.x, step.y>>, pause>>)
        ELSE IF lower(action) = <<"s", "w", "i", "p", "e">>
        THEN IF {"x1", "y1", "x2", "y2"} \ DOMAIN step # {} THEN raise("KeyError")
             ELSE IF ~ok THEN raise("AdbError")
             ELSE done(<<<<"swipe", step.x1, step.y1, step.x2, step.y2,
                           get(step, "duration_ms", 300)>>, pause>>)
        ELSE IF lower(action) = <<"s", "l", "e", "e", "p">>
        THEN done(<<<<"sleep", get(step, "seconds", get(step, "duration", 0))>>>>)
        ELSE IF lower(action) = <<"s", "h", "e", "l", "l">>
        THEN IF ~ok THEN raise("AdbError")
             ELSE done(<<<<"shell", split_ws(get(step, "command", <<>>), <<>>)>>, pause>>)
        ELSE done(<<>>)

InitDevice ==
    /\ has_discord = FALSE
    /\ copy_sequence = TRUE
    /\ buyback_percent \in Percents
    /\ stop_event = FALSE
    /\ pc = "loop"
    /\ cy = CyInit
    /\ trace = <<>>
    /\ outcome = "none"
    /\ start = Snapshot(EmptyDb, <<>>)
    /\ percent = buyback_percent
    /\ db = EmptyDb
    /\ dbc = EmptyDb
    /\ user_words = {}
    /\ notified = <<>>
    /\ faults = 0
    /\ \/ \E steps \in StepSequences :
            call = [fn |-> "execute_steps", steps |-> steps, idx |-> 0,
                    performed |-> <<>>, raised |-> "none"]
       \/ call = [fn |-> "screencap", attempts |-> 0, outcomes |-> <<>>,
                  sleeps |-> 0, result |-> "running"]

\* execute_steps, lines 183-218: the next step of the sequence
ExecuteStep ==
    /\ call.fn = "execute_steps"
    /\ call.raised = "none"
    /\ call.idx < Len(call.steps)
    /\ \E ok \in BOOLEAN :
         LET r == execute_step(call.steps[call.idx + 1], ok)
         IN  call' = [call EXCEPT !.idx = @ + 1,
                                  !.performed = @ \o r.ops,
                                  !.raised = r.raised]
    /\ UNCHANGED <<faults, config, stop_event, pc, cy, trace, outcome, start, percent,
                   db, dbc, user_words, notified>>

\* a faulty variant: bytes that do not decode end the call at once
ScreencapDecodeFatal ==
    /\ call.fn = "screencap"
    /\ call.result = "running"
    /\ call.attempts < MaxAttempts
    /\ \E got \in CaptureOutcomes :
         call' = [call EXCEPT
                    !.attempts = @ + 1,
                    !.outcomes = Append(@, got),
                    !.sleeps = IF got = "image" THEN @ ELSE @ + 1,
                    !.result = IF got = "image" THEN "image"
                               ELSE IF got = "decode_error" THEN "None"
                               ELSE IF call.attempts + 1 < MaxAttempts THEN "running"
                               ELSE "None"]
    /\ UNCHANGED <<faults, config, stop_event, pc, cy, trace, outcome, start, percent,
                   db, dbc, user_words, notified>>

\* screencap, lines 135-156: one attempt, and the return of None after the
\* last one failed
ScreencapAttempt ==
    /\ call.fn = "screencap"
    /\ call.result = "running"
    /\ call.attempts < MaxAttempts
    /\ \E got \in CaptureOutcomes :
         call' = [call EXCEPT
                    !.attempts = @ + 1,
                    !.outcomes = Append(@, got),
                    !.sleeps = IF got = "image" THEN @ ELSE @ + 1,
                    !.result = IF got = "image" THEN "image"
                               ELSE IF call.attempts + 1 < MaxAttempts THEN "running"
                               ELSE "None"]
    /\ UNCHANGED <<faults, config, stop_event, pc, cy, trace, outcome, start, percent,
                   db, dbc, user_words, notified>>

NextDevice == ExecuteStep \/ ScreencapAttempt

SpecDevice == InitDevice /\ [][NextDevice]_vars

(***************************************************************************)
(* ocr.py: _safe_crop on the image sizes and the boxes a configuration may *)
(* hold                                                                    *)
(***************************************************************************)
\* the coordinates of a box: before, on and past the edges of the images
Coordinates == {0 - 1, 0, 10, 50, 200, 201}

\* boxes of four coordinates, and of three and of five
Boxes ==
    [1..4 -> Coordinates] \cup {<<10, 10, 50>>, <<10, 10, 50, 50, 50>>}

\* image.size
ImageSizes == {<<w, h>> : w \in {0, 10, 200}, h \in {10, 200}}

\* sorted((a, b)), min and max of two integers
sorted(a, b) == IF a <= b THEN <<a, b>> ELSE <<b, a>>
min(a, b) == IF a <= b THEN a ELSE b
max(a, b) == IF a >= b THEN a ELSE b

\* a faulty variant: the coordinates are clamped as they come
_safe_crop_unsorted(size, box) ==
    IF Len(box) # 4 THEN None
    ELSE LET left   == max(0, min(size[1], box[1]))
             right  == max(0, min(size[1], box[3]))
             top    == max(0, min(size[2], box[2]))
             bottom == max(0, min(size[2], box[4]))
         IN  IF left >= right \/ top >= bottom THEN None
             ELSE <<left, top, right, bottom>>

\* _safe_crop, lines 119-144: None, or the rectangle image.crop is called with
_safe_crop(size, box) ==
    IF Len(box) # 4 THEN None
    ELSE LET width  == size[1]
             height == size[2]
             lr     == sorted(box[1], box[3])
             tb     == sorted(box[2], box[4])
             left   == max(0, min(width, lr[1]))
             right  == max(0, min(width, lr[2]))
             top    == max(0, min(height, tb[1]))
             bottom == max(0, min(height, tb[2]))
         IN  IF left >= right \/ top >= bottom THEN None
             ELSE <<left, top, right, bottom>>

InitCrop ==
    /\ has_discord = FALSE
    /\ copy_sequence = TRUE
    /\ buyback_percent \in Percents
    /\ stop_event = FALSE
    /\ pc = "loop"
    /\ cy = CyInit
    /\ trace = <<>>
    /\ outcome = "none"
    /\ start = Snapshot(EmptyDb, <<>>)
    /\ percent = buyback_percent
    /\ db = EmptyDb
    /\ dbc = EmptyDb
    /\ user_words = {}
    /\ notified = <<>>
    /\ faults = 0
    /\ \E size \in ImageSizes, box \in Boxes :
         call = [fn |-> "_safe_crop", size |-> size, box |-> box,
                 returned |-> FALSE, result |-> None]

\* the call of _safe_crop runs and returns
SafeCrop ==
    /\ call.fn = "_safe_crop"
    /\ ~call.returned
    /\ call' = [call EXCEPT !.returned = TRUE,
                            !.result = _safe_crop(call.size, call.box)]
    /\ UNCHANGED <<faults, config, stop_event, pc, cy, trace, outcome, start, percent,
                   db, dbc, user_words, notified>>

NextCrop == SafeCrop

SpecCrop == InitCrop /\ [][NextCrop]_vars

(***************************************************************************)
(* The game: the contracts the players have put up wait in the list of the *)
(* contracts window; first_contract_tap opens the first of the list, and   *)
(* the contract leaves the list when accept_contract has accepted it.  The *)
(* cycle is reduced to one step, with every way its device sequences after *)
(* record_contract can end                                                 *)
(***************************************************************************)
MaxGameContracts == 3

\* the contracts in the game, and what the card of each shows
GameContracts == {1, 2}

GameCard(g) ==
    [system |-> <<"J", "-", "1">>, player_name |-> <<"V">>, game_time |-> <<"9">>,
     composition |-> IF g = 1 THEN LineA ELSE LineB]

\* the lists the window may show when the service starts
PendingLists == {<<>>, <<1>>, <<1, 2>>, <<2, 1>>}

\* lines 166-168: all three sequences ran, or the named one raised AdbError
FinishOutcomes ==
    {"done", "close_contract_card", "accept_contract", "close_contracts_window"}

\* the sequences of lines 166-172 that ran through, and what followed
finish_trace(raised) ==
    IF raised = "done" THEN FinishSteps \o <<"sleep_cooldown">>
    ELSE IF raised = "close_contract_card" THEN <<"AdbError", "sleep_poll">>
    ELSE IF raised = "accept_contract"
    THEN <<"close_contract_card", "AdbError", "sleep_poll">>
    ELSE <<"close_contract_card", "accept_contract", "AdbError", "sleep_poll">>

InitGame ==
    /\ has_discord = FALSE
    /\ copy_sequence = TRUE
    /\ buyback_percent \in Percents
    /\ stop_event = FALSE
    /\ pc = "loop"
    /\ cy = CyInit
    /\ trace = <<>>
    /\ outcome = "none"
    /\ start = Snapshot(EmptyDb, <<>>)
    /\ percent = buyback_percent
    /\ db = EmptyDb
    /\ dbc = EmptyDb
    /\ user_words = {}
    /\ notified = <<>>
    /\ faults = 0
    /\ \E pending \in PendingLists :
         call = [fn |-> "game", pending |-> pending, origin |-> <<>>]

\* lines 47-57: the loop starts a cycle, the connection is used by the thread
\* that runs the cycle
GameLoop ==
    /\ pc = "loop"
    /\ check_same_thread(ProcessorThread)
    /\ Len(dbc.contracts) < MaxGameContracts
    /\ UNCHANGED <<faults, config, stop_event, pc, percent, user_words>>

\* lines 61-72: the marker region is empty, the list shows no contract
GameNoContract ==
    /\ GameLoop
    /\ call.pending = <<>>
    /\ cy' = CyInit
    /\ db' = consume_training_words(db)
    /\ dbc' = consume_training_words(db)
    /\ trace' = <<"open_contracts_steps", "screencap">> \o NoContractSteps
    /\ outcome' = "no_contract"
    /\ start' = Snapshot(dbc, notified)
    /\ UNCHANGED <<call, notified>>

\* lines 74-189: the first contract of the list is opened, read, recorded;
\* _persist_ocr_artifacts stores the samples of the first k regions; the
\* three last sequences run until one raises; call.origin keeps which
\* contract of the game each contract of the ledger was read from
GameContract ==
    /\ GameLoop
    /\ call.pending # <<>>
    /\ \E k \in 0..3, raised \in FinishOutcomes, took_effect \in BOOLEAN :
         LET card        == GameCard(Head(call.pending))
             system_name == extract_system(card.system)
             player_name == extract_nick(card.player_name)
             items       == parse_clipboards(None, card.composition)
             ocr_texts   == <<[box_name |-> "system", text |-> card.system],
                              [box_name |-> "player_name", text |-> card.player_name],
                              [box_name |-> "game_time", text |-> card.game_time]>>
             d0 == consume_training_words(db)
             d1 == record_contract(d0, system_name, player_name, percent, items,
                                   get_user_by_character(d0, player_name))
             d2 == store_samples(d1, Len(d1.contracts), ocr_texts, k)
             ran == finish_trace(raised)
             accepted == IF "accept_contract" \in {ran[i] : i \in 1..Len(ran)}
                         THEN TRUE
                         ELSE raised = "accept_contract" /\ took_effect
         IN  /\ (raised # "accept_contract") => took_effect
             /\ cy' = [CyInit EXCEPT !.has_contract = TRUE,
                                     !.composition = card.composition,
                                     !.host_clipboard = card.composition,
                                     !.system_name = system_name,
                                     !.player_name = player_name,
                                     !.ocr_texts = ocr_texts,
                                     !.items = items,
                                     !.buyback_percent = percent,
                                     !.contract_id = Len(d1.contracts),
                                     !.artifacts_failed = (k < 3)]
             /\ db' = d2
             /\ dbc' = d2
             /\ trace' = <<"open_contracts_steps", "screencap", "first_contract_tap",
                           "screencap">> \o CompositionSteps \o <<"sleep_4">> \o ran
             /\ outcome' = IF raised = "done" THEN "success" ELSE "exception"
             /\ notified' = IF raised = "done" THEN Append(notified, Len(d1.contracts))
                            ELSE notified
             /\ start' = Snapshot(dbc, notified)
             /\ call' = [call EXCEPT
                           !.pending = IF accepted THEN Tail(@) ELSE @,
                           !.origin = Append(@, Head(call.pending))]

NextGame == GameNoContract \/ GameContract \/ Restart

SpecGame == InitGame /\ [][NextGame]_vars

(***************************************************************************)
(* Properties                                                              *)
(***************************************************************************)
Range(s) == {s[i] : i \in 1..Len(s)}

EndsWith(s, t) == Len(s) >= Len(t) /\ SubSeq(s, Len(s) - Len(t) + 1, Len(s)) = t

\* _process_cycle has returned or raised and run_forever is back at its test
CycleEnded == pc = "loop" /\ outcome \notin {"none", "running"}

Distinct(items) ==
    \A i, j \in 1..Len(items) : i # j => items[i].item_name # items[j].item_name

InvQty(inventory, system, item_name) ==
    LET rows == {r \in inventory : r.system = system /\ r.item_name = item_name}
    IN  IF rows = {} THEN 0 ELSE (CHOOSE r \in rows : TRUE).qty

\* record_contract raised after its INSERT of the contract row
RecordContractFailed ==
    /\ outcome = "exception"
    /\ cy.contract_id # 0
    /\ "sqlite3.Error" \in Range(trace)

\* C1: record_contract is all-or-nothing.  When the call fails after the
\* contract row was inserted, on any of the item or inventory upserts, the
\* contracts, contract_items and inventory tables equal their state before
\* the call, in the file and as the connection sees them.
C1_RecordContractAllOrNothing ==
    RecordContractFailed =>
        /\ dbc.contracts = start.contracts
        /\ dbc.contract_items = start.contract_items
        /\ dbc.inventory = start.inventory
        /\ db = dbc

\* a call that failed on its second item, over a ledger that held a contract
C1_Witness ==
    /\ RecordContractFailed
    /\ cy.rc_i = 2
    /\ start.contracts # <<>>

\* C3: a cycle that found the marker and extracted n >= 1 items of pairwise
\* distinct names has created exactly one contract row when it ends: the rows
\* there were stay, the new row has exactly those n item rows, and the
\* inventory of the contract's system holds each item's quantity more than
\* before, nothing else in the inventory changed.
C3_ExactlyOneContract ==
    (CycleEnded /\ cy.has_contract /\ cy.items # <<>> /\ Distinct(cy.items)) =>
        LET id    == Len(start.contracts) + 1
            names == {cy.items[i].item_name : i \in 1..Len(cy.items)}
            rows  == {r \in dbc.contract_items : r.contract_id = id}
            other(inventory) ==
                {r \in inventory : ~(r.system = cy.system_name /\ r.item_name \in names)}
        IN  /\ Len(dbc.contracts) = id
            /\ SubSeq(dbc.contracts, 1, id - 1) = start.contracts
            /\ dbc.contracts[id].system = cy.system_name
            /\ dbc.contracts[id].player_name = cy.player_name
            /\ rows = {[contract_id |-> id, item_name |-> cy.items[i].item_name,
                        qty |-> cy.items[i].quantity,
                        est_value |-> cy.items[i].est_value] : i \in 1..Len(cy.items)}
            /\ Cardinality(rows) = Len(cy.items)
            /\ dbc.contract_items \ rows = start.contract_items
            /\ \A i \in 1..Len(cy.items) :
                 InvQty(dbc.inventory, cy.system_name, cy.items[i].item_name)
                   = InvQty(start.inventory, cy.system_name, cy.items[i].item_name)
                     + cy.items[i].quantity
            /\ other(dbc.inventory) = other(start.inventory)

\* a second contract of two distinct items, in a system whose inventory
\* already held them
C3_Witness ==
    /\ CycleEnded
    /\ outcome = "success"
    /\ Len(cy.items) = 2
    /\ Distinct(cy.items)
    /\ Len(start.contracts) = 1
    /\ \A i \in 1..2 : InvQty(start.inventory, cy.system_name, cy.items[i].item_name) > 0

\* C4: every contract row a cycle committed has been handed to the
\* notification callback exactly once when the cycle has ended, leaving aside
\* a cycle whose callback itself raised.
C4_CommittedContractNotified ==
    (/\ CycleEnded
     /\ cy.contract_id # 0
     /\ Len(dbc.contracts) >= cy.contract_id
     /\ ~cy.callback_failed)
        => notified = Append(start.notified, cy.contract_id)

\* C5: a cycle that read the marker region and found no text in it has run
\* open_contracts_steps, the capture, close_contracts_window and the poll
\* sleep and nothing else (no accept_contract), has left the contracts,
\* contract_items, inventory and ocr_samples tables as they were, and has
\* handed over no notification.
C5_MarkerAbsent ==
    (CycleEnded /\ "screencap" \in Range(trace) /\ ~cy.has_contract) =>
        /\ trace = <<"open_contracts_steps", "screencap",
                     "close_contracts_window", "sleep_poll">>
        /\ "accept_contract" \notin Range(trace)
        /\ Ledger(dbc) = Ledger(start)
        /\ notified = start.notified

\* a cycle without a marker over a ledger that holds a contract and samples
C5_Witness ==
    /\ CycleEnded
    /\ outcome = "no_contract"
    /\ dbc.contracts # <<>>
    /\ dbc.ocr_samples # {}

\* C6: a cycle that found the marker and captured the card, and in which
\* neither the clipboards nor the OCR fallback gave an item, has ended with
\* close_contract_card, close_contracts_window and the poll sleep, has not run
\* accept_contract, has written no contract, item, inventory or sample row,
\* and has handed over no notification.
C6_NothingParsed ==
    (CycleEnded /\ cy.has_contract /\ cy.ocr_texts # <<>> /\ cy.items = <<>>) =>
        /\ EndsWith(trace, <<"close_contract_card", "close_contracts_window",
                             "sleep_poll">>)
        /\ "accept_contract" \notin Range(trace)
        /\ Ledger(dbc) = Ledger(start)
        /\ notified = start.notified

\* with a copy sequence configured, the clipboards gave nothing and the OCR
\* fallback read a table text that does not parse, over a ledger that holds a
\* contract
C6_Witness ==
    /\ CycleEnded
    /\ outcome = "parse_failure"
    /\ copy_sequence
    /\ \E i \in 1..Len(cy.ocr_texts) : cy.ocr_texts[i].box_name = "composition_table"
    /\ dbc.contracts # <<>>

\* C7: an exception of a step of a cycle ends in the guard of run_forever,
\* which sleeps the poll interval and goes back to the test of the loop;
\* run_forever has returned only when the stop event is set.
C7_LoopSurvives ==
    /\ pc = "returned" => stop_event
    /\ outcome = "exception" => pc \in {"guard", "loop", "returned"}
    /\ (outcome = "exception" /\ pc # "guard") =>
           /\ Len(trace) >= 2
           /\ trace[Len(trace)] = "sleep_poll"
           /\ trace[Len(trace) - 1] \in {"ProgrammingError", "sqlite3.Error", "AdbError"}

\* a cycle ended by a failure of the device, the loop back at its test and not
\* stopped
C7_Witness ==
    /\ pc = "loop"
    /\ outcome = "exception"
    /\ "AdbError" \in Range(trace)
    /\ ~stop_event

\* C8: when persisting the OCR artifacts failed or the notification callback
\* raised, the contracts, contract_items and inventory tables are what
\* record_contract made of them in that cycle, the failure does not end the
\* cycle, and a cycle the device did not fail has run close_contract_card,
\* accept_contract, close_contracts_window and the cooldown sleep once it is
\* past them.
C8_SideChannelFailure ==
    (cy.artifacts_failed \/ cy.callback_failed) =>
        LET rec == record_contract(start, cy.system_name, cy.player_name,
                                   cy.buyback_percent, cy.items, cy.user_id)
        IN  /\ dbc.contracts = rec.contracts
            /\ dbc.contract_items = rec.contract_items
            /\ dbc.inventory = rec.inventory
            /\ "AdbError" \notin Range(trace) =>
                 /\ outcome # "exception"
                 /\ pc \in {"finish", "notify", "loop"}
                 /\ pc # "finish" =>
                      EndsWith(trace, <<"close_contract_card", "accept_contract",
                                        "close_contracts_window", "sleep_cooldown">>)

\* a cycle that ended after _persist_ocr_artifacts failed with part of the
\* samples stored
C8_Witness ==
    /\ CycleEnded
    /\ outcome = "success"
    /\ cy.artifacts_failed
    /\ \E r \in dbc.ocr_samples : r.contract_id = cy.contract_id
    /\ Cardinality({r \in dbc.ocr_samples : r.contract_id = cy.contract_id})
           < Len(cy.ocr_texts)

\* C9: outside the drain step, every word marked trained is a line of the
\* user-words file.
C9_TrainedOnlyIfDelivered ==
    pc # "add_words" =>
        \A r \in dbc.ocr_training_words : r.trained = 1 => r.word \in user_words

\* every contract row is credited its estimated total times the percent it
\* stores (in hundredths), and the cycle that recorded a row read the shared
\* percent once and the row stores that reading
C10_RowsCredited ==
    /\ \A i \in 1..Len(dbc.contracts) :
         dbc.contracts[i].bisk_credited
            = dbc.contracts[i].est_total * dbc.contracts[i].buyback_percent
    /\ (cy.contract_id # 0 /\ Len(dbc.contracts) >= cy.contract_id) =>
         /\ cy.percent_reads = 1
         /\ dbc.contracts[cy.contract_id].buyback_percent = cy.buyback_percent

\* a step leaves the percent, the total and the credit of every recorded row
C10_RowsKept ==
    \A i \in 1..Len(dbc.contracts) :
        /\ Len(dbc'.contracts) >= i
        /\ dbc'.contracts[i].buyback_percent = dbc.contracts[i].buyback_percent
        /\ dbc'.contracts[i].est_total = dbc.contracts[i].est_total
        /\ dbc'.contracts[i].bisk_credited = dbc.contracts[i].bisk_credited

\* C10: the buyback percent is a per-cycle snapshot.  A cycle that records a
\* contract reads the shared percent once, the row stores that reading and is
\* credited its estimated total times that reading over 100, and no later
\* step, a set_percent of the command surface among them, changes the
\* percent, the total or the credit of a recorded row.
C10_PercentSnapshot == []C10_RowsCredited /\ [][C10_RowsKept]_vars

\* a contract recorded at one percent while set_buyback has set another
C10_Witness ==
    /\ has_discord
    /\ dbc.contracts # <<>>
    /\ dbc.contracts[1].est_total > 0
    /\ dbc.contracts[1].buyback_percent # percent

\* a step returns from run_forever only at the test of the loop with the stop
\* event set, starts no cycle while the event is set, and a step that sets the
\* event leaves the cycle in progress where it is
C11_Boundary ==
    /\ (pc' = "returned" /\ pc # "returned") => (pc = "loop" /\ stop_event)
    /\ (stop_event /\ stop_event' /\ pc = "loop") => pc' \in {"loop", "returned"}
    /\ (~stop_event /\ stop_event') => UNCHANGED <<pc, cy, trace, outcome>>

\* C11: the stop event is observed only at the test of the loop.  Once stop()
\* is called the cycle in progress goes on to its end, no new cycle starts,
\* and run_forever returns eventually (unless the service is started again
\* first).
C11_StopAtBoundary ==
    /\ [][C11_Boundary]_vars
    /\ stop_event ~> (pc = "returned" \/ ~stop_event)

\* stop() was called while a cycle is in progress, before the sleep of the
\* guard
C11_Witness == stop_event /\ pc = "guard"

\* C12: when the first capture of a cycle failed, the cycle has written
\* nothing to the ledger tables, and run_forever is back at the test of its
\* loop only after the poll sleep of its guard.
C12_CaptureFailureBackoff ==
    (pc = "loop" /\ outcome = "capture_failed"
        /\ "first_contract_tap" \notin Range(trace)) =>
        /\ Ledger(dbc) = Ledger(start)
        /\ trace[Len(trace)] = "sleep_poll"


\* the screen captures of the cycle taken after the wait of line 114
FallbackCaptures ==
    {i \in 1..Len(trace) :
        /\ trace[i] \in {"screencap", "screencap_failed"}
        /\ \E j \in 1..(i - 1) : trace[j] = "sleep_4"}

\* the composition texts the recognition engine gave in this cycle
CompositionOcr ==
    {i \in 1..Len(cy.ocr_texts) : cy.ocr_texts[i].box_name = "composition_table"}

\* the cycle has read the clipboards and has decided about, or done, the fallback
Extracted == "sleep_4" \in Range(trace) /\ pc # "fallback"

\* C13: the channels are tried in the order host clipboard, device clipboard
\* (both only with a copy sequence configured), recognition of a fresh capture
\* of the composition; the cycle's items, and the item rows of the contract
\* it records, are those of the first channel that gave at least one item, and
\* the fallback capture and recognition happen only when no clipboard gave one.
C13_ChannelOrder ==
    Extracted =>
        LET host    == IF copy_sequence /\ cy.host_clipboard # None
                       THEN parse_lines(cy.host_clipboard) ELSE <<>>
            android == IF copy_sequence /\ cy.android_clipboard # None
                       THEN parse_lines(cy.android_clipboard) ELSE <<>>
            names   == {cy.items[i].item_name : i \in 1..Len(cy.items)}
            rows    == {r \in dbc.contract_items : r.contract_id = cy.contract_id}
        IN  /\ host # <<>> =>
                 cy.items = host /\ FallbackCaptures = {} /\ CompositionOcr = {}
            /\ (host = <<>> /\ android # <<>>) =>
                 cy.items = android /\ FallbackCaptures = {} /\ CompositionOcr = {}
            /\ (host = <<>> /\ android = <<>>) =>
                 /\ Cardinality(FallbackCaptures) = 1
                 /\ cy.items # <<>> =>
                      /\ Cardinality(CompositionOcr) = 1
                      /\ \A i \in CompositionOcr :
                           cy.items = parse_lines(cy.ocr_texts[i].text)
            /\ (cy.contract_id # 0 /\ pc \notin {"record", "record_items"}) =>
                 /\ {r.item_name : r \in rows} = names
                 /\ \A r \in rows : \E i \in 1..Len(cy.items) :
                      /\ cy.items[i].item_name = r.item_name
                      /\ cy.items[i].quantity = r.qty

\* the host clipboard gave the composition while the device clipboard held
\* another parseable text, and the contract is recorded
C13_Witness ==
    /\ CycleEnded
    /\ outcome = "success"
    /\ cy.contract_id # 0
    /\ cy.host_clipboard # None
    /\ cy.android_clipboard # None
    /\ parse_lines(cy.host_clipboard) # <<>>
    /\ parse_lines(cy.android_clipboard) # <<>>
    /\ parse_lines(cy.android_clipboard) # parse_lines(cy.host_clipboard)


RECURSIVE SumRows(_)
SumRows(rows) ==
    IF rows = {} THEN 0
    ELSE LET r == CHOOSE x \in rows : TRUE
         IN  r.est_value + SumRows(rows \ {r})

\* C14: every committed contract's est_total is the sum of est_value over the
\* item rows stored under it, whatever item list the parser handed over.
C14_TotalIsSumOfRows ==
    \A id \in 1..Len(dbc.contracts) :
        dbc.contracts[id].est_total
            = SumRows({r \in dbc.contract_items : r.contract_id = id})


\* the quantity an item list carries under one item name
RECURSIVE QtyOf(_, _)
QtyOf(items, item_name) ==
    IF items = <<>> THEN 0
    ELSE (IF Head(items).item_name = item_name THEN Head(items).quantity ELSE 0)
             + QtyOf(Tail(items), item_name)

\* C15: the inventory has one row for a (system, item name), and a cycle that
\* recorded a contract left in it the quantity it held before plus the
\* contract's quantity of that item, so two contracts of one system with
\* quantities q1 and q2 of an item leave q1 + q2; the rows of another system
\* or of another item name are as they were.
C15_InventoryAccumulates ==
    /\ \A r1, r2 \in dbc.inventory :
         (r1.system = r2.system /\ r1.item_name = r2.item_name) => r1 = r2
    /\ (CycleEnded /\ cy.contract_id # 0) =>
         LET names == {cy.items[i].item_name : i \in 1..Len(cy.items)}
             other(inventory) ==
                 {r \in inventory : ~(r.system = cy.system_name /\ r.item_name \in names)}
         IN  /\ \A n \in names :
                  /\ \E r \in dbc.inventory :
                       r.system = cy.system_name /\ r.item_name = n
                  /\ InvQty(dbc.inventory, cy.system_name, n)
                       = InvQty(start.inventory, cy.system_name, n) + QtyOf(cy.items, n)
             /\ other(dbc.inventory) = other(start.inventory)

\* the second contract of a system brings an item the first one brought
C15_Witness ==
    /\ CycleEnded
    /\ outcome = "success"
    /\ Len(start.contracts) = 1
    /\ Len(dbc.contracts) = 2
    /\ dbc.contracts[1].system = dbc.contracts[2].system
    /\ \E i \in 1..Len(cy.items) :
         /\ InvQty(start.inventory, cy.system_name, cy.items[i].item_name) > 0
         /\ InvQty(dbc.inventory, cy.system_name, cy.items[i].item_name)
              > cy.items[i].quantity


\* C16: link_character(u, nick) links to u every contract of nick that had no
\* user, leaves the contracts that had a user and the contracts of other
\* nicknames as they were, and leaves the nickname linked to u, whether or
\* not it was linked before.
C16_LinkBackfills ==
    \A u \in 1..Len(db.users), nick \in AccountNicks :
        LET after == link_character(db, u, nick)
        IN  /\ Len(after.contracts) = Len(db.contracts)
            /\ \A i \in 1..Len(db.contracts) :
                 after.contracts[i] =
                     IF db.contracts[i].player_name = nick /\ db.contracts[i].user_id = 0
                     THEN [db.contracts[i] EXCEPT !.user_id = u]
                     ELSE db.contracts[i]
            /\ {r \in after.characters : r.game_nick = nick}
                 = {[game_nick |-> nick, user_id |-> u]}
            /\ {r \in after.characters : r.game_nick # nick}
                 = {r \in db.characters : r.game_nick # nick}

\* a nickname was linked again, to another user, after a contract of it had
\* been linked, and a contract of another nickname waits without a user
C16_Witness ==
    /\ Len(db.users) = 2
    /\ \E i, j \in 1..Len(db.contracts) :
         /\ db.contracts[i].user_id # 0
         /\ get_user_by_character(db, db.contracts[i].player_name)
              \notin {0, db.contracts[i].user_id}
         /\ db.contracts[j].player_name # db.contracts[i].player_name
         /\ db.contracts[j].user_id = 0


\* the total of a function over a finite set of keys
RECURSIVE Total(_, _)
Total(f, keys) ==
    IF keys = {} THEN 0
    ELSE LET k == CHOOSE x \in keys : TRUE
         IN  f[k] + Total(f, keys \ {k})

\* what the contracts linked to a user credited, what the user was paid
Credited(d, user_id) ==
    Total([i \in 1..Len(d.contracts) |-> d.contracts[i].bisk_credited],
          {i \in 1..Len(d.contracts) : d.contracts[i].user_id = user_id})

Paid(d, user_id) ==
    Total([r \in d.payouts |-> r.amount], {r \in d.payouts : r.user_id = user_id})

\* C17: calculate_balance(u) is what the contracts linked to u credited (the
\* contracts linked by back-fill with them) less what u was paid; contracts
\* crediting 100 and 50 with one payout of 30 give 120, no contract and no
\* payout give 0 (amounts in thousandths).
C17_Balance ==
    \A u \in 1..(Len(db.users) + 1) :
        LET mine == {i \in 1..Len(db.contracts) : db.contracts[i].user_id = u}
            paid == {r \in db.payouts : r.user_id = u}
        IN  /\ calculate_balance(db, u) = Credited(db, u) - Paid(db, u)
            /\ (/\ Cardinality(mine) = 2
                /\ {db.contracts[i].bisk_credited : i \in mine} = {100000, 50000}
                /\ {r.amount : r \in paid} = {30000}
                /\ Cardinality(paid) = 1) => calculate_balance(db, u) = 120000
            /\ (mine = {} /\ paid = {}) => calculate_balance(db, u) = 0
            /\ \A discord_id \in AccountDiscordIds :
                 user_row(db, discord_id) = u =>
                     balance_reply(db, discord_id) = calculate_balance(db, u)

\* a user paid 30 has contracts crediting 100 and 50, brought by two
\* characters of the user
C17_Witness ==
    \E u \in 1..Len(db.users) :
        /\ Len(db.contracts) = 2
        /\ \A i \in 1..2 : db.contracts[i].user_id = u
        /\ {db.contracts[i].bisk_credited : i \in 1..2} = {100000, 50000}
        /\ {r.amount : r \in db.payouts} = {30000}
        /\ \A r \in db.payouts : r.user_id = u
        /\ calculate_balance(db, u) = 120000
        /\ db.contracts[1].player_name # db.contracts[2].player_name


\* the words of the queue with a given trained flag
WordsWith(d, trained) == {r.word : r \in {x \in d.ocr_training_words : x.trained = trained}}

\* a call of consume_training_words right after another returns nothing
C18_SecondEmpty ==
    /\ untrained_words(consume_training_words(db)) = {}
    /\ WordsWith(consume_training_words(db), 1) = {r.word : r \in db.ocr_training_words}

\* a step of the program, seen from the training queue
C18_Step ==
    /\ (pc = "drain" /\ pc' \in {"open", "add_words"}) =>
         /\ cy'.words = WordsWith(dbc, 0)
         /\ WordsWith(dbc', 0) = {}
         /\ WordsWith(dbc', 1) = WordsWith(dbc, 0) \cup WordsWith(dbc, 1)
         /\ db' = dbc'
    /\ \A w \in WordsWith(dbc, 1) :
         \/ w \in WordsWith(dbc', 1)
         \/ /\ BotRunning
            /\ pc' = pc
            /\ w \in WordsWith(dbc', 0)

\* C18: consume_training_words returns exactly the words whose trained flag is
\* 0 and marks them all trained in the same transaction; a second call with no
\* queue_training_words between returns nothing, and a drained word stays
\* trained, so is not returned again, until a command queues it again.
C18_ConsumeDrains == []C18_SecondEmpty /\ [][C18_Step]_vars

\* a cycle drained the queue earlier, and this cycle's call returned nothing
C18_Witness ==
    /\ pc = "open"
    /\ cy.words = {}
    /\ WordsWith(dbc, 1) # {}
    /\ WordsWith(dbc, 0) = {}
    /\ user_words # {}


\* word lists handed to queue_training_words: none, a word of the samples, a
\* padded word, a blank word
QueuedWords == SUBSET {<<"V">>, <<" ", "x", " ">>, <<" ">>}

\* C19: queue_training_words leaves one row for each word, with trained = 0
\* for the words queued, whether they were absent, untrained or trained
\* before, so the next consume_training_words returns each of them; blank
\* words get no row, and the rows of other words stay.
C19_QueueNeverDuplicates ==
    \A words \in QueuedWords :
        LET after  == queue_training_words(dbc, words)
            queued == {strip(w) : w \in words} \ {<<>>}
        IN  /\ \A r1, r2 \in after.ocr_training_words : r1.word = r2.word => r1 = r2
            /\ \A w \in queued : [word |-> w, trained |-> 0] \in after.ocr_training_words
            /\ queued \subseteq untrained_words(after)
            /\ \A r \in after.ocr_training_words : strip(r.word) # <<>>
            /\ {r \in after.ocr_training_words : r.word \notin queued}
                 = {r \in dbc.ocr_training_words : r.word \notin queued}
            /\ untrained_words(consume_training_words(after)) = {}

\* a word that was drained and delivered is in the queue again, untrained
C19_Witness ==
    \E w \in user_words :
        /\ [word |-> w, trained |-> 0] \in dbc.ocr_training_words
        /\ \E r \in dbc.ocr_training_words : r.trained = 1


\* the samples of a table whose status is corrected, by contract and region
Corrected(samples) ==
    {<<r.contract_id, r.box_name>> : r \in {x \in samples : x.status = "corrected"}}

\* confirm_ocr_contract on the samples of the store
C20_Confirm ==
    \A contract_id \in 1..MaxContracts :
        LET after == confirm_ocr_contract(dbc, contract_id).ocr_samples
        IN  \A r \in dbc.ocr_samples :
                IF r.contract_id # contract_id \/ r.status = "corrected"
                THEN r \in after
                ELSE \E x \in after :
                        /\ x.contract_id = r.contract_id
                        /\ x.box_name = r.box_name
                        /\ x.status = "confirmed"

\* no call of the three operations takes a sample out of corrected
C20_Calls ==
    \A contract_id \in 1..MaxContracts, box_name \in CorrectFields, text \in CorrectTexts :
        /\ Corrected(dbc.ocr_samples)
             \subseteq Corrected(confirm_ocr_contract(dbc, contract_id).ocr_samples)
        /\ Corrected(dbc.ocr_samples)
             \subseteq Corrected(correct_ocr_sample(dbc, contract_id, box_name,
                                                    text).ocr_samples)
        /\ Corrected(dbc.ocr_samples)
             \subseteq Corrected(store_ocr_sample(dbc, contract_id, box_name,
                                                  text).ocr_samples)

\* no step of the program does
C20_Step == Corrected(dbc.ocr_samples) \subseteq Corrected(dbc'.ocr_samples)

\* C20: confirm_ocr_contract sets the status confirmed for the samples of the
\* contract that are not corrected and leaves the corrected ones, status and
\* confirmed text, as they were; a sample that is corrected stays corrected
\* through every confirm_ocr_contract, correct_ocr_sample and store_ocr_sample.
C20_CorrectedSticky == [](C20_Confirm /\ C20_Calls) /\ [][C20_Step]_vars

\* a contract with a corrected sample has been confirmed: its other samples
\* are confirmed, the corrected one kept its text
C20_Witness ==
    \E r \in dbc.ocr_samples :
        /\ r.status = "corrected"
        /\ r.confirmed_text # r.recognized_text
        /\ \E x \in dbc.ocr_samples :
             x.contract_id = r.contract_id /\ x.status = "confirmed"
        /\ \A x \in dbc.ocr_samples :
             x.contract_id = r.contract_id => x.status # "pending"


\* the regions a correction may name: those of the samples, and one of no sample
BoxNames == {"system", "player_name", "game_time", "composition_table", "nope"}

\* C21: correct_ocr_sample(contract, region, text) puts text as the confirmed
\* text of that one sample and corrected as its status, whatever the status
\* was, and leaves every other sample, of this and of the other contracts, and
\* every other table as they were; with no sample for (contract, region) the
\* store is left as it was and the command stops there.
C21_CorrectOneSample ==
    \A contract_id \in 1..MaxContracts, box_name \in BoxNames, text \in CorrectTexts :
        LET after  == correct_ocr_sample(dbc, contract_id, box_name, text)
            sample == get_ocr_sample(dbc, contract_id, box_name)
            rest   == dbc.ocr_samples \ sample
        IN  /\ [after EXCEPT !.ocr_samples = {}] = [dbc EXCEPT !.ocr_samples = {}]
            /\ sample = {} => after = dbc
            /\ sample # {} =>
                 /\ after.ocr_samples \ rest =
                      {[r EXCEPT !.confirmed_text = text, !.status = "corrected"] :
                           r \in sample}
                 /\ rest \subseteq after.ocr_samples
                 /\ Cardinality(after.ocr_samples) = Cardinality(dbc.ocr_samples)

\* a sample of a confirmed contract was corrected, its other samples kept the
\* text they were confirmed with, and another contract's samples are pending
C21_Witness ==
    /\ \E r \in dbc.ocr_samples :
         /\ r.status = "corrected"
         /\ r.confirmed_text \in CorrectTexts
         /\ \E x \in dbc.ocr_samples :
              /\ x.contract_id = r.contract_id
              /\ x.status = "confirmed"
              /\ x.confirmed_text = x.recognized_text
         /\ \E x \in dbc.ocr_samples :
              x.contract_id # r.contract_id /\ x.status = "pending"


\* C22: no step takes quantity from the inventory: a row that is there stays,
\* with a quantity that is not less than it was.
C22_InventoryNeverDecremented ==
    [][\A r \in dbc.inventory :
          \E x \in dbc'.inventory :
              /\ x.system = r.system
              /\ x.item_name = r.item_name
              /\ x.qty >= r.qty]_vars


\* the last item of a list that carries a name
LastOf(items, item_name) ==
    items[CHOOSE i \in 1..Len(items) :
              /\ items[i].item_name = item_name
              /\ \A j \in (i + 1)..Len(items) : items[j].item_name # item_name]

\* C23: (contract, item name) is unique among the item rows, in the
\* connection's view and in the committed store alike, and the contract a
\* cycle recorded has for each name of its item list one row, with the
\* quantity and the value of the last item of that name.
C23_ItemRowsUnique ==
    /\ \A d \in {db, dbc} : \A r1, r2 \in d.contract_items :
         (r1.contract_id = r2.contract_id /\ r1.item_name = r2.item_name) => r1 = r2
    /\ (cy.contract_id # 0 /\ pc \notin {"record", "record_items"}) =>
         {r \in dbc.contract_items : r.contract_id = cy.contract_id}
           = {[contract_id |-> cy.contract_id,
               item_name |-> cy.items[i].item_name,
               qty |-> LastOf(cy.items, cy.items[i].item_name).quantity,
               est_value |-> LastOf(cy.items, cy.items[i].item_name).est_value] :
                  i \in 1..Len(cy.items)}

\* a recorded contract whose item list named an item twice, with two
\* quantities
C23_Witness ==
    /\ cy.contract_id # 0
    /\ pc = "persist"
    /\ \E i, j \in 1..Len(cy.items) :
         /\ i < j
         /\ cy.items[i].item_name = cy.items[j].item_name
         /\ cy.items[i].quantity # cy.items[j].quantity
         /\ [contract_id |-> cy.contract_id, item_name |-> cy.items[j].item_name,
             qty |-> cy.items[j].quantity, est_value |-> cy.items[j].est_value]
                \in dbc.contract_items


\* a step of the program, seen from the contracts of the store: each stays,
\* with its fields and its item rows, but for a user given to a contract
\* that had none
C24_Step ==
    \A id \in 1..Len(dbc.contracts) :
        /\ id <= Len(dbc'.contracts)
        /\ [dbc'.contracts[id] EXCEPT !.user_id = 0]
             = [dbc.contracts[id] EXCEPT !.user_id = 0]
        /\ \/ dbc'.contracts[id].user_id = dbc.contracts[id].user_id
           \/ dbc.contracts[id].user_id = 0
        /\ {r \in dbc'.contract_items : r.contract_id = id}
             = {r \in dbc.contract_items : r.contract_id = id}

\* C24: a contract of the store keeps its system, player name, buyback
\* percent, estimated total, credited amount and item rows through every
\* later step (cycles, set_percent, link_character, the review commands, the
\* training queue); only its user may change, and only from none to a user.
C24_ContractImmutable == [][C24_Step]_vars

\* after the first contract came a second one, a registration that linked
\* it, a correction of one of its samples with its training words, and a
\* change of the buyback percent
C24_Witness ==
    /\ Len(dbc.contracts) = 2
    /\ dbc.contracts[1].user_id # 0
    /\ dbc.contracts[1].buyback_percent # percent
    /\ \E r \in dbc.ocr_samples : r.contract_id = 1 /\ r.status = "corrected"
    /\ dbc.ocr_training_words # {}


\* the steps of a sequence that name a known action, in list order
RECURSIVE KnownActions(_)
KnownActions(steps) ==
    IF steps = <<>> THEN <<>>
    ELSE (IF step_action(Head(steps)) # None
             /\ lower(step_action(Head(steps)))
                  \in {<<"t", "a", "p">>, <<"s", "w", "i", "p", "e">>,
                       <<"s", "l", "e", "e", "p">>, <<"s", "h", "e", "l", "l">>}
             /\ (lower(step_action(Head(steps))) = <<"t", "a", "p">>
                   => {"x", "y"} \subseteq DOMAIN Head(steps))
          THEN <<lower(step_action(Head(steps)))>> ELSE <<>>)
         \o KnownActions(Tail(steps))

\* the device commands and plain sleeps a call performed, without the pauses
\* that follow a command
RECURSIVE Performed(_)
Performed(ops) ==
    IF ops = <<>> THEN <<>>
    ELSE IF Head(ops)[1] = "tap" THEN <<<<"t", "a", "p">>>> \o Performed(Tail(Tail(ops)))
    ELSE IF Head(ops)[1] = "swipe"
    THEN <<<<"s", "w", "i", "p", "e">>>> \o Performed(Tail(Tail(ops)))
    ELSE IF Head(ops)[1] = "shell"
    THEN <<<<"s", "h", "e", "l", "l">>>> \o Performed(Tail(Tail(ops)))
    ELSE <<<<"s", "l", "e", "e", "p">>>> \o Performed(Tail(ops))

\* C26: unless the device refuses a command, execute_steps comes to the end
\* of the sequence, and what it performed is, in list order, every step that
\* is well formed: a step without an action type, of an unknown type or
\* without its required fields is passed over and the later ones are done.
C26_MalformedSkipped ==
    (call.fn = "execute_steps" /\ call.raised # "AdbError") =>
        /\ call.raised = "none"
        /\ call.idx = Len(call.steps) => Performed(call.performed) = KnownActions(call.steps)


\* C27: screencap makes at most 3 attempts and has returned after the third;
\* it returns the image of the first attempt that gave one, with no attempt
\* after it, and returns None exactly when 3 attempts in a row failed, bytes
\* that do not decode counting as a failure like an error of the command.
C27_CaptureBounded ==
    call.fn = "screencap" =>
        LET n      == Len(call.outcomes)
            failed == {i \in 1..n : call.outcomes[i] \in {"AdbError", "decode_error"}}
        IN  /\ call.attempts = n
            /\ n <= 3
            /\ n = 3 => call.result # "running"
            /\ call.result = "image" <=>
                 (n >= 1 /\ call.outcomes[n] = "image" /\ failed = 1..(n - 1))
            /\ call.result = "None" <=> (n = 3 /\ failed = 1..3)
            /\ call.result = "running" <=> (n < 3 /\ failed = 1..n)
            /\ call.sleeps = Cardinality(failed)

\* bytes that did not decode, an error of the command, then an image
C27_Witness ==
    /\ call.fn = "screencap"
    /\ call.outcomes = <<"decode_error", "AdbError", "image">>
    /\ call.result = "image"


\* C28: _safe_crop of a 200 x 200 image with the box (50, 50, 10, 10) returns
\* None.
C28_ReversedBoxRejected ==
    (/\ call.fn = "_safe_crop"
     /\ call.returned
     /\ call.size = <<200, 200>>
     /\ call.box = <<50, 50, 10, 10>>) => call.result = None


\* a coordinate brought into 0..limit
Clamped(v, limit) == IF v < 0 THEN 0 ELSE IF v > limit THEN limit ELSE v

\* C29: _safe_crop takes per axis the lesser coordinate as the near edge and
\* the greater as the far edge, brings both into [0, width] or [0, height],
\* returns None exactly when the rectangle so obtained has no width or no
\* height, and otherwise crops exactly that rectangle, which lies inside the
\* image; a box that has not 4 coordinates gives None.
C29_CropNormalizes ==
    (call.fn = "_safe_crop" /\ call.returned) =>
        IF Len(call.box) # 4 THEN call.result = None
        ELSE LET w == call.size[1]
                 h == call.size[2]
                 l == Clamped(IF call.box[1] <= call.box[3]
                              THEN call.box[1] ELSE call.box[3], w)
                 r == Clamped(IF call.box[1] <= call.box[3]
                              THEN call.box[3] ELSE call.box[1], w)
                 t == Clamped(IF call.box[2] <= call.box[4]
                              THEN call.box[2] ELSE call.box[4], h)
                 b == Clamped(IF call.box[2] <= call.box[4]
                              THEN call.box[4] ELSE call.box[2], h)
             IN  /\ call.result = None <=> (r - l = 0 \/ b - t = 0)
                 /\ call.result # None =>
                      /\ call.result = <<l, t, r, b>>
                      /\ 0 <= l /\ l < r /\ r <= w
                      /\ 0 <= t /\ t < b /\ b <= h

\* a box given far edge first, past the image on one axis, was cropped
C29_Witness ==
    /\ call.fn = "_safe_crop"
    /\ call.returned
    /\ call.size = <<200, 200>>
    /\ call.box = <<201, 50, 0 - 1, 10>>
    /\ call.result = <<0, 10, 200, 50>>


\* the tokens of a line: those of the strict pattern when it matches, else
\* the parts between gaps of two or more blanks
Tokens(line) ==
    IF LINE_REGEX_match(line) THEN split_ws(line, <<>>) ELSE split_multi(line, <<>>)

Numeric(token) == float(replace_comma(token)).ok

NameOf(tokens) == sanitize_item_name(join(SubSeq(tokens, 2, Len(tokens) - 2)))

\* the three conditions on a line
ValidLine(raw_line) ==
    LET tokens == Tokens(strip(raw_line))
        n      == Len(tokens)
    IN  /\ n >= 4
        /\ Numeric(tokens[n - 1])
        /\ Numeric(tokens[n])
        /\ NameOf(tokens) # <<>>

ItemOf(raw_line) ==
    LET tokens == Tokens(strip(raw_line))
        n      == Len(tokens)
    IN  [item_name |-> NameOf(tokens),
         quantity |-> float(replace_comma(tokens[n - 1])).val,
         est_value |-> float(replace_comma(tokens[n])).val]

\* C30: the items parse_lines gave the cycle are, in the order of the lines,
\* one item for each line of the text that has at least 4 tokens, two last
\* tokens that are numbers (with '.' or ',' as the decimal mark) and a name
\* that is not empty once sanitized; the other lines, blank ones with them,
\* give nothing and take nothing from the lines around them.
C30_OneItemPerValidLine ==
    (cy.has_contract /\ cy.composition # <<>>) =>
        LET valid == SelectSeq(splitlines(cy.composition), ValidLine)
        IN  /\ Len(cy.items) = Len(valid)
            /\ \A k \in 1..Len(valid) : cy.items[k] = ItemOf(valid[k])

\* a text of four lines, the first and the third without an item, gave the
\* items of the second and the fourth, in that order
C30_Witness ==
    /\ cy.has_contract
    /\ Len(splitlines(cy.composition)) = 4
    /\ Len(cy.items) = 2
    /\ cy.items[1] = ItemOf(splitlines(cy.composition)[2])
    /\ cy.items[2] = ItemOf(splitlines(cy.composition)[4])
    /\ cy.items[1].est_value = 5

\* C31: no contract of the game is recorded twice: whatever the device
\* sequences and the persisting of the artifacts after record_contract did,
\* no two contracts of the ledger were read from the same contract of the
\* game.
C31_RecordedOnce ==
    \A i, j \in 1..Len(call.origin) :
        (call.fn = "game" /\ i # j) => call.origin[i] # call.origin[j]

\* C33: accept_contract is run in a cycle only after the record_contract of
\* that cycle has committed: when the trace of a cycle holds accept_contract,
\* the contract the cycle inserted is the last committed contract; a cycle
\* that ended without a contract, with a parse failure, with a failed capture
\* or with a failed record_contract has not run accept_contract.
C33_AcceptAfterCommit ==
    /\ "accept_contract" \in Range(trace) =>
           /\ cy.contract_id # 0
           /\ cy.rc_i > Len(cy.items)
           /\ Len(dbc.contracts) = cy.contract_id
    /\ (outcome \in {"no_contract", "parse_failure", "capture_failed"}
            \/ RecordContractFailed) => "accept_contract" \notin Range(trace)

\* the last device sequences of a cycle have just run, accept_contract among
\* them, for the second contract of the ledger
C33_Witness ==
    /\ pc = "notify"
    /\ "accept_contract" \in Range(trace)
    /\ cy.contract_id = 2
    /\ Len(dbc.contracts) = 2

\* C34: a cycle that ran open_contracts_steps and returned normally has run
\* close_contracts_window before it returned, whatever its outcome, and when
\* it opened the card of the first contract it has run close_contract_card
\* as well.
C34_WindowClosed ==
    (/\ CycleEnded
     /\ outcome # "exception"
     /\ "open_contracts_steps" \in Range(trace)) =>
        /\ "close_contracts_window" \in Range(trace)
        /\ "first_contract_tap" \in Range(trace) =>
               "close_contract_card" \in Range(trace)

\* C35: the sample rows of a contract are those of the three regions of the
\* card: every row has the region name system, player_name or game_time, and
\* no two rows of a contract have the same region name.
C35_CardRegionsOnly ==
    /\ \A r \in dbc.ocr_samples : r.box_name \in {"system", "player_name", "game_time"}
    /\ \A r, x \in dbc.ocr_samples :
           (r.contract_id = x.contract_id /\ r.box_name = x.box_name) => r = x

\* C36: in a successful cycle the notification is handed to the callback
\* after record_contract has committed and before the cooldown sleep begins:
\* once a cycle has slept its cooldown, its contract is committed and the
\* callback has been called with it (or has raised).
C36_NotifyBeforeCooldown ==
    "sleep_cooldown" \in Range(trace) =>
        /\ cy.contract_id # 0
        /\ Len(dbc.contracts) >= cy.contract_id
        /\ \/ cy.callback_failed
           \/ notified # <<>> /\ notified[Len(notified)] = cy.contract_id

\* C37: a failure while the training words are drained, in
\* consume_training_words or in add_training_words, does not end the cycle:
\* every cycle that has ended has run open_contracts_steps.
C37_DrainNotFatal ==
    CycleEnded => "open_contracts_steps" \in Range(trace)

\* C38: every word a review action has enqueued is drained by the first cycle
\* that starts after the enqueue committed: the step of a cycle that leaves
\* the drain returns every committed word that is not trained yet and marks
\* it trained, before any device action, and the step that follows hands the
\* words to add_training_words.
C38_QueuedWordsDrained ==
    [][/\ (pc = "drain" /\ pc' # "drain") =>
              /\ \A w \in untrained_words(dbc) :
                     w \in cy'.words /\ w \notin untrained_words(dbc')
              /\ Range(trace') \cap {"open_contracts_steps", "screencap"} = {}
       /\ (pc = "add_words" /\ pc' # "add_words") =>
              /\ {strip(w) : w \in cy.words} \ {<<>>} \subseteq user_words'
              /\ trace = <<>>]_vars

\* C39: with the front end enabled, the connection opened by the main thread
\* permits every database call the worker thread makes in a cycle
\* (consume_training_words, get_user_by_character, record_contract,
\* store_ocr_sample): no cycle ends in the guard of run_forever because the
\* connection refused the thread.
C39_WorkerPermitted ==
    has_discord => "ProgrammingError" \notin Range(trace)

====
